---- MODULE Spec2Model ----
(***************************************************************************)
(* Export job protocol of mini-vrew: the export client (ffmpegClient), the *)
(* ffmpeg worker (ffmpeg.worker, both variants found in the repository)    *)
(* and the export controller hook (useVideoExport).                        *)
(*                                                                         *)
(* One step of the model is one task of an event loop: a message handler,  *)
(* a timer callback, an API call with the promise continuations it         *)
(* triggers (microtasks run before the next task), or the code between two *)
(* awaits of a worker handler that wait for the engine.                    *)
(*                                                                         *)
(* Scope: the job protocol follows one worker process: there             *)
(* initFFmpegWorker has been called once, and a worker whose error event   *)
(* was handled is dropped by the client and not followed further.  The     *)
(* Worker objects of repeated initFFmpegWorker calls are followed, without *)
(* jobs, in the variable pool (InitSpec).                                  *)
(***************************************************************************)
EXTENDS Integers, Sequences, FiniteSets, TLC

\* ---------------------------------------------------------------- bounds
\* progress events the engine emits during one run that are followed
MaxEvents == 2
\* the longest caption, in words, the editing functions are applied to
MaxWords == 3
\* number of job ids generateJobId hands out in one behaviour
MaxJobs == 2
\* user-initiated cancel messages are sent only while the inbox is shorter
MaxInbox == 1
\* Worker objects initFFmpegWorker creates in one behaviour
MaxWorkers == 3

Jobs == 1..MaxJobs
NoJob == 0

JobTypes == {"trim", "burnin", "probe"}
\* the two worker sources of the repository
Variants == {"v5", "v4"}

Files == {"input.mp4", "output.mp4", "subtitles.srt", "probe_input.mp4"}

VARIABLES
  \* ---- export client (module state of ffmpegClient)
  client,        \* [isInitialized, currentJobId, worker, jobCallbacks, timers]
  nextJobId,     \* job ids handed out so far
  promise,       \* per job: [outcome, calls] of the promise startJob returned
  jobType,       \* per job: "none" or the type it was started with
  jobOwner,      \* per job: "none", "hook" (useVideoExport), "env", "handle"
  initPromise,   \* the latest initFFmpegWorker attempt: [status, owner,
                 \* timer (its INIT_TIMEOUT_MS timer is armed), calls]
  \* ---- worker process
  variant,       \* which worker source is running
  pool,          \* the Worker objects initFFmpegWorker created, each with
                 \*   the closure of the call that created it, and the
                 \*   client's state.worker / state.isInitialized:
                 \*   [workers, worker, isInitialized]
  wState,        \* "none" | "booting" | "running"
  inbox,         \* client -> worker messages, in order
  outbox,        \* worker -> client messages, in order
  worker,        \* [ffmpegLoaded, currentJobId, cancelRequested, initLoading]
  wpc,           \* per job: position of its handler in the worker
  fs,            \* virtual filesystem: file -> [owner, bytes]
  posted,        \* per job: the terminal messages the worker posted for it
  wlog,          \* history: the running trim / burn-in handlers whose cancel
                 \*   was taken by handleCancel before their last checkpoint
  sent,          \* history, per job: [last, decreased] of the progress values
                 \*   posted for its id
  \* ---- controller hook (useVideoExport)
  exportState,   \* [status, progress, error, outputBlob]
  isReady,       \* useState isReady
  hlog,          \* history: the pending jobs cancel() was called for
  \* ---- video detail page
  exportError,   \* useState exportError: "null" or the message shown
  plog,          \* history: the last handleExport call, [called, videoBlob,
                 \*   range]
  \* ---- caption functions (captionOps, srtUtils)
  cin,           \* the arguments of the call
  cout           \* [op, value]: the function called and what it returned

clientVars == <<client, nextJobId, promise, jobType, jobOwner, initPromise>>
staticVars == <<variant, pool>>
workerVars == <<staticVars, wState, inbox, outbox, worker, wpc, fs, posted, wlog,
               sent>>
hookVars   == <<exportState, isReady, hlog>>
captionVars == <<cin, cout>>
\* what no step of the export protocol changes
pageVars == <<exportError, plog>>
fixedVars == <<staticVars, pageVars, captionVars>>
vars == <<clientVars, workerVars, hookVars, pageVars, captionVars>>

\* ---------------------------------------------------------------- messages
Msg(t, j) == [type |-> t, jobId |-> j, data |-> "none"]
\* a job request; the payload is followed for the jobs of the hook (the trim
\* window it sends) and is "none" for the calls made directly
JobMsg(t, j, payload) == [type |-> t, jobId |-> j, data |-> payload]
\* ProgressData, the progress in percent
Progress(v, s) == [progress |-> v, stage |-> s]
ProgressMsg(j, data) == [type |-> "progress", jobId |-> j, data |-> data]
ErrorMsg(j, code) == [type |-> "error", jobId |-> j, data |-> code]
InitComplete(success) ==
  [type |-> "init-complete", jobId |-> NoJob,
   data |-> IF success THEN "success" ELSE "failure"]

TerminalTypes == {"completed", "probe-completed", "error", "cancelled"}

\* ---------------------------------------------------------------- client
\* the state right after the module is loaded
ClientState0 ==
  [isInitialized |-> FALSE, currentJobId |-> NoJob, worker |-> FALSE,
   jobCallbacks |-> {}, timers |-> {}]

Promise0 == [outcome |-> "none", calls |-> 0]

isFFmpegReady == client.isInitialized /\ client.worker

isJobRunning == client.currentJobId # NoJob

\* cleanupJob without jobCallbacks.delete
cleanupJob_KeepRecord(c, j) ==
  [c EXCEPT !.timers = @ \ {j},
            !.currentJobId = IF @ = j THEN NoJob ELSE @]

\* cleanupJob without "state.currentJobId = null"
cleanupJob_KeepMarker(c, j) ==
  [c EXCEPT !.timers = IF j \in @ /\ j \in c.jobCallbacks THEN @ \ {j} ELSE @,
            !.jobCallbacks = @ \ {j}]

\* cleanupJob without clearTimeout
cleanupJob_KeepTimer(c, j) ==
  [c EXCEPT !.jobCallbacks = @ \ {j},
            !.currentJobId = IF @ = j THEN NoJob ELSE @]

\* clearTimeout + jobCallbacks.delete + release of the current-job marker
cleanupJob(c, j) ==
  [c EXCEPT !.timers = IF j \in @ /\ j \in c.jobCallbacks THEN @ \ {j} ELSE @,
            !.jobCallbacks = @ \ {j},
            !.currentJobId = IF @ = j THEN NoJob ELSE @]

\* cb.resolve / cb.reject: a call on the promise's resolving functions; only
\* the first call decides the outcome
settle(p, j, outcome) ==
  [p EXCEPT ![j] = [outcome |-> IF @.outcome = "pending" THEN outcome ELSE @.outcome,
                    calls |-> @.calls + 1]]

createPromise(p, j) == [p EXCEPT ![j] = [outcome |-> "pending", calls |-> 0]]


RECURSIVE cleanupEach(_, _)
\* "for (const [jobId, cb] of jobCallbacks) { ...; cleanupJob(jobId) }"
cleanupEach(c, S) ==
  IF S = {} THEN c
  ELSE LET j == CHOOSE x \in S : \A y \in S : x <= y
       IN cleanupEach(cleanupJob(c, j), S \ {j})

\* "for (const [jobId, cb] of jobCallbacks) { cb.reject(error); ... }"
rejectEach(p, S, outcome) ==
  [j \in Jobs |-> IF j \in S THEN settle(p, j, outcome)[j] ELSE p[j]]

\* startJob without the check of state.currentJobId
startJobResult_NoBusyCheck(c) ==
  IF ~c.isInitialized \/ ~c.worker THEN "NOT_READY" ELSE "accepted"

\* startJob without the check of isInitialized and worker
startJobResult_NoReadyCheck(c) ==
  IF c.currentJobId # NoJob THEN "INVALID_ARGS" ELSE "accepted"

\* startJob lines 219-231: the checks before a job is created
startJobResult(c) ==
  IF ~c.isInitialized \/ ~c.worker THEN "NOT_READY"
  ELSE IF c.currentJobId # NoJob THEN "INVALID_ARGS"
  ELSE "accepted"

\* the same checks in the promise executor of startExportWithHandle
startExportWithHandleResult(c) ==
  IF ~c.isInitialized \/ ~c.worker THEN "NOT_READY"
  ELSE IF c.currentJobId # NoJob THEN "INVALID_ARGS"
  ELSE "accepted"

\* registerJob without the setTimeout
registerJob_NoTimer(c, j) ==
  [c EXCEPT !.jobCallbacks = @ \cup {j}, !.currentJobId = j]

\* startJob without "state.currentJobId = jobId"
registerJob_NoMarker(c, j) ==
  [c EXCEPT !.timers = @ \cup {j}, !.jobCallbacks = @ \cup {j}]

\* setTimeout + jobCallbacks.set + state.currentJobId = jobId
registerJob(c, j) ==
  [c EXCEPT !.timers = @ \cup {j},
            !.jobCallbacks = @ \cup {j},
            !.currentJobId = j]

\* postMessage of the client: state.worker.postMessage(msg)
postMessage(q, msg) == Append(q, msg)

\* ---------------------------------------------------------------- hook
\* progress is held in percent; an optional field that is absent is "none"
\* (elapsedMs: the empty sequence, a value v being <<v>>)
initialState ==
  [status |-> "idle", progress |-> 0, stage |-> "none", error |-> "none",
   outputBlob |-> "none", elapsedMs |-> <<>>]

\* the object cancel() sets: { status: 'idle', progress: 0 }
IdleState ==
  [status |-> "idle", progress |-> 0, stage |-> "none", error |-> "none",
   outputBlob |-> "none", elapsedMs |-> <<>>]

ErrorState(message) ==
  [status |-> "error", progress |-> 0, stage |-> "none", error |-> message,
   outputBlob |-> "none", elapsedMs |-> <<>>]

ExportingState ==
  [status |-> "exporting", progress |-> 0, stage |-> "starting",
   error |-> "none", outputBlob |-> "none", elapsedMs |-> <<>>]

CompletedState(blob, elapsedMs) ==
  [status |-> "completed", progress |-> 100, stage |-> "none",
   error |-> "none", outputBlob |-> blob, elapsedMs |-> <<elapsedMs>>]

\* handleProgress: the onProgress callback the hook hands to the client
handleProgress(es, data) ==
  [es EXCEPT !.progress = data.progress, !.stage = data.stage]

\* the code of startExport after "await exportWithSubtitles / trimVideo":
\* setState(completed) on resolution, the catch block on rejection; the
\* result's elapsedMs is what the worker measured, one value (1) standing
\* for every measurement
startExportContinuation(es, outcome) ==
  IF outcome = "resolved" THEN CompletedState("result", 1)
  ELSE ErrorState(outcome)

RECURSIVE RunContinuations(_, _, _, _)
\* the promise continuations of the hook's jobs that a client step settled,
\* run as microtasks at the end of that step, in job order
RunContinuations(j, p, p2, es) ==
  IF j > MaxJobs THEN es
  ELSE IF jobOwner[j] = "hook" /\ p[j].outcome = "pending"
          /\ p2[j].outcome # "pending"
       THEN RunContinuations(j + 1, p, p2,
                             startExportContinuation(es, p2[j].outcome))
       ELSE RunContinuations(j + 1, p, p2, es)

\* a client step that takes the promises from promise to p2
SettleTo(p2) ==
  /\ promise' = p2
  /\ exportState' = RunContinuations(1, promise, p2, exportState)
  /\ hlog' = {j \in hlog : p2[j].outcome = "pending"}


\* ---------------------------------------------------------------- worker state
Worker0 ==
  [ffmpegLoaded |-> FALSE, currentJobId |-> NoJob, cancelRequested |-> FALSE,
   initLoading |-> FALSE]

NoFile == [owner |-> NoJob, bytes |-> "none"]
Fs0 == [f \in Files |-> NoFile]

ActivePc == {"load", "write", "exec", "read"}

\* worker.terminate(): the process, its queues and its filesystem are gone
KillWorker ==
  /\ wState' = "none"
  /\ inbox' = <<>>
  /\ outbox' = <<>>
  /\ worker' = Worker0
  /\ fs' = Fs0
  /\ wpc' = [j \in Jobs |-> IF wpc[j] \in ActivePc THEN "killed" ELSE wpc[j]]
  /\ wlog' = {}
  /\ UNCHANGED <<fixedVars, posted, sent>>

\* ---------------------------------------------------------------- client API
\* lines 233-262 of startJob (and 308-328 of startExportWithHandle): the job
\* is created, its timer armed and its request posted
AcceptJob(j, type, owner, payload) ==
  /\ nextJobId < MaxJobs
  /\ j = nextJobId + 1
  /\ nextJobId' = j
  /\ client' = registerJob(client, j)
  /\ promise' = createPromise(promise, j)
  /\ jobType' = [jobType EXCEPT ![j] = type]
  /\ jobOwner' = [jobOwner EXCEPT ![j] = owner]
  /\ inbox' = postMessage(inbox, JobMsg(type, j, payload))

\* trimVideo / exportWithSubtitles / probeVideo called directly
EnvStart(type) ==
  LET r == startJobResult(client)
  IN /\ IF r = "accepted"
        THEN AcceptJob(nextJobId + 1, type, "env", "none")
        ELSE UNCHANGED <<client, nextJobId, promise, jobType, jobOwner, inbox>>
     /\ UNCHANGED <<initPromise, fixedVars, wState, outbox, worker, wpc, fs,
                    posted, sent, wlog, hookVars>>

\* startExportWithHandle called directly
EnvStartWithHandle ==
  LET r == startExportWithHandleResult(client)
  IN /\ IF r = "accepted"
        THEN AcceptJob(nextJobId + 1, "burnin", "handle", "none")
        ELSE UNCHANGED <<client, nextJobId, promise, jobType, jobOwner, inbox>>
     /\ UNCHANGED <<initPromise, fixedVars, wState, outbox, worker, wpc, fs,
                    posted, sent, wlog, hookVars>>

\* handle.cancel() of a handle returned by startExportWithHandle
HandleCancel(j) ==
  /\ jobOwner[j] = "handle"
  /\ client.worker
  /\ Len(inbox) < MaxInbox
  /\ inbox' = postMessage(inbox, Msg("cancel", j))
  /\ UNCHANGED <<clientVars, fixedVars, wState, outbox, worker, wpc, fs, posted, sent,
                 wlog, hookVars>>

\* cancelCurrentJob without "if (state.currentJobId && state.worker)"
cancelCurrentJob_Unguarded(q) ==
  postMessage(q, Msg("cancel", client.currentJobId))

\* cancelCurrentJob
cancelCurrentJob(q) ==
  IF client.currentJobId # NoJob /\ client.worker
  THEN postMessage(q, Msg("cancel", client.currentJobId))
  ELSE q

\* cancelCurrentJob called directly
EnvCancel ==
  /\ Len(inbox) < MaxInbox
  /\ inbox' = cancelCurrentJob(inbox)
  /\ UNCHANGED <<clientVars, fixedVars, wState, outbox, worker, wpc, fs, posted, sent,
                 wlog, hookVars>>

\* terminateFFmpegWorker
terminateFFmpegWorker ==
  LET S == client.jobCallbacks
      c2 == cleanupEach(client, S)
  IN /\ SettleTo(rejectEach(promise, S, "TERMINATED"))
     /\ client' = [c2 EXCEPT !.worker = FALSE, !.isInitialized = FALSE,
                             !.currentJobId = NoJob]
     /\ IF client.worker THEN KillWorker ELSE UNCHANGED <<workerVars, fixedVars>>
     /\ UNCHANGED <<nextJobId, jobType, jobOwner, initPromise, isReady>>

\* handleWorkerError without "state.isInitialized = false"
handleWorkerError_KeepReady ==
  LET S == client.jobCallbacks
      c2 == cleanupEach(client, S)
  IN /\ SettleTo(rejectEach(promise, S, "WORKER_CRASHED"))
     /\ client' = [c2 EXCEPT !.worker = FALSE]

\* handleWorkerError
handleWorkerError ==
  LET S == client.jobCallbacks
      c2 == cleanupEach(client, S)
  IN /\ SettleTo(rejectEach(promise, S, "WORKER_CRASHED"))
     /\ client' = [c2 EXCEPT !.isInitialized = FALSE, !.worker = FALSE]

\* the worker's error event, delivered to the listener added on init success
WorkerErrorEvent ==
  /\ client.worker
  /\ wState = "running"
  /\ handleWorkerError
  /\ KillWorker
  /\ UNCHANGED <<nextJobId, jobType, jobOwner, initPromise, isReady>>

\* the timeout callback without its postMessage({ type: 'cancel', jobId })
jobTimeout_NoCancel(j) ==
  LET fired == [client EXCEPT !.timers = @ \ {j}]
  IN /\ client' = cleanupJob(fired, j)
     /\ SettleTo(settle(promise, j, "TIMEOUT"))
     /\ inbox' = inbox

\* the setTimeout callback of startJob / startExportWithHandle
jobTimeout(j) ==
  LET fired == [client EXCEPT !.timers = @ \ {j}]
  IN /\ client' = cleanupJob(fired, j)
     /\ SettleTo(settle(promise, j, "TIMEOUT"))
     /\ inbox' = IF client.worker THEN postMessage(inbox, Msg("cancel", j))
                 ELSE inbox

Timeout(j) ==
  /\ j \in client.timers
  /\ jobTimeout(j)
  /\ UNCHANGED <<nextJobId, jobType, jobOwner, initPromise,
                 fixedVars, wState, outbox, worker, wpc, fs, posted, sent, wlog, isReady>>

\* ---------------------------------------------------------------- init
\* resolve() / reject(error) of the promise initFFmpegWorker returned: only
\* the first call decides the outcome
settleInit(p, outcome) ==
  [p EXCEPT !.status = IF @ = "pending" THEN outcome ELSE @,
            !.calls = @ + 1]

\* the .then / .catch of the hook's mount effect on initFFmpegWorker()
initContinuation(status) ==
  IF initPromise.owner # "hook"
  THEN UNCHANGED <<exportState, isReady>>
  ELSE IF status = "resolved"
  THEN /\ isReady' = TRUE
       /\ exportState' = IF exportState.status = "initializing"
                         THEN [exportState EXCEPT !.status = "idle"]
                         ELSE exportState
  ELSE /\ exportState' = ErrorState("FFmpeg init failed")
       /\ UNCHANGED isReady

\* the INIT_TIMEOUT_MS timer of initFFmpegWorker
InitTimeout ==
  /\ initPromise.timer
  /\ KillWorker
  /\ initPromise' = [settleInit(initPromise, "TIMEOUT") EXCEPT !.timer = FALSE]
  /\ IF initPromise.status = "pending" THEN initContinuation("TIMEOUT")
     ELSE UNCHANGED <<exportState, isReady>>
  /\ UNCHANGED <<client, nextJobId, promise, jobType, jobOwner, hlog>>

\* initHandler without its two clearTimeout(timeoutId)
initHandler_NoClearTimeout(msg) ==
  IF msg.type = "ready" \/ (msg.type = "init-complete" /\ msg.data = "success")
  THEN /\ client' = [client EXCEPT !.worker = TRUE, !.isInitialized = TRUE]
       /\ initPromise' = settleInit(initPromise, "resolved")
       /\ initContinuation("resolved")
       /\ outbox' = Tail(outbox)
       /\ UNCHANGED <<fixedVars, wState, inbox, worker, wpc, fs, posted, sent, wlog>>
  ELSE IF msg.type = "init-complete"
  THEN /\ KillWorker
       /\ initPromise' = settleInit(initPromise, "INIT_FAILED")
       /\ initContinuation("INIT_FAILED")
       /\ UNCHANGED client
  ELSE /\ outbox' = Tail(outbox)
       /\ UNCHANGED <<client, initPromise, exportState, isReady, fixedVars, wState,
                      inbox, worker, wpc, fs, posted, sent, wlog>>

\* initHandler: the message listener while the init attempt is pending
initHandler(msg) ==
  IF msg.type = "ready" \/ (msg.type = "init-complete" /\ msg.data = "success")
  THEN /\ client' = [client EXCEPT !.worker = TRUE, !.isInitialized = TRUE]
       /\ initPromise' = [settleInit(initPromise, "resolved")
                           EXCEPT !.timer = FALSE]
       /\ initContinuation("resolved")
       /\ outbox' = Tail(outbox)
       /\ UNCHANGED <<fixedVars, wState, inbox, worker, wpc, fs, posted, sent, wlog>>
  ELSE IF msg.type = "init-complete"
  THEN /\ KillWorker
       /\ initPromise' = [settleInit(initPromise, "INIT_FAILED")
                           EXCEPT !.timer = FALSE]
       /\ initContinuation("INIT_FAILED")
       /\ UNCHANGED client
  ELSE /\ outbox' = Tail(outbox)
       /\ UNCHANGED <<client, initPromise, exportState, isReady, fixedVars, wState,
                      inbox, worker, wpc, fs, posted, sent, wlog>>

\* ---------------------------------------------------------------- messages in
\* what a terminal message settles the job's promise with
terminalOutcome(msg) ==
  CASE msg.type \in {"completed", "probe-completed"} -> "resolved"
    [] msg.type = "error" -> msg.data
    [] msg.type = "cancelled" -> "CANCELLED"

\* handleWorkerMessage without the lookup "if (cb)"
handleWorkerMessage_NoLookup(msg) ==
  IF msg.type \in TerminalTypes
  THEN /\ SettleTo(settle(promise, msg.jobId, terminalOutcome(msg)))
       /\ client' = cleanupJob(client, msg.jobId)
  ELSE IF msg.type = "progress" /\ jobOwner[msg.jobId] = "hook"
  THEN /\ exportState' = handleProgress(exportState, msg.data)
       /\ UNCHANGED <<client, promise, hlog>>
  ELSE UNCHANGED <<client, promise, exportState, hlog>>

\* handleWorkerMessage: the message listener after a successful init
handleWorkerMessage(msg) ==
  IF msg.type \in TerminalTypes /\ msg.jobId \in client.jobCallbacks
  THEN /\ SettleTo(settle(promise, msg.jobId, terminalOutcome(msg)))
       /\ client' = cleanupJob(client, msg.jobId)
  ELSE IF msg.type = "progress" /\ msg.jobId \in client.jobCallbacks
          /\ jobOwner[msg.jobId] = "hook"
  THEN /\ exportState' = handleProgress(exportState, msg.data)
       /\ UNCHANGED <<client, promise, hlog>>
  ELSE UNCHANGED <<client, promise, exportState, hlog>>

\* the client's event loop takes the next worker message
ClientRecv ==
  /\ outbox # <<>>
  /\ LET msg == Head(outbox)
     IN IF initPromise.status = "pending"
        THEN /\ initHandler(msg)
             /\ UNCHANGED <<promise, hlog>>
        ELSE /\ handleWorkerMessage(msg)
             /\ outbox' = Tail(outbox)
             /\ UNCHANGED <<initPromise, isReady, fixedVars, wState, inbox,
                            worker, wpc, fs, posted, sent, wlog>>
  /\ UNCHANGED <<nextJobId, jobType, jobOwner>>

\* ---------------------------------------------------------------- hook API
\* ExportOptions as far as startExport reads them: the trim range (absent:
\* the empty sequence), the number of captions, includeSubtitles
TrimRanges ==
  {<<>>, <<[startMs |-> 0, endMs |-> 0]>>, <<[startMs |-> 2, endMs |-> 1]>>,
   <<[startMs |-> 1, endMs |-> 3]>>}
ExportOptions ==
  [trimRange : TrimRanges, captions : {0, 1}, includeSubtitles : BOOLEAN]

\* "trimRange?.startMs ?? 0", "trimRange?.endMs ?? 0"
startMsOf(opts) == IF opts.trimRange = <<>> THEN 0 ELSE opts.trimRange[1].startMs
endMsOf(opts) == IF opts.trimRange = <<>> THEN 0 ELSE opts.trimRange[1].endMs

\* hasTrim without the comparison of the two ends
hasTrim_AnyRange(opts) == opts.trimRange # <<>>

\* "const hasTrim = trimRange && endMs > startMs"
hasTrim(opts) == opts.trimRange # <<>> /\ endMsOf(opts) > startMsOf(opts)

\* exportKind sending every request without subtitles to the worker
exportKind_AlwaysJob(opts) ==
  IF opts.includeSubtitles /\ opts.captions > 0 THEN "burnin" ELSE "trim"

\* the branch startExport takes: exportWithSubtitles, trimVideo, or neither
exportKind(opts) ==
  IF opts.includeSubtitles /\ opts.captions > 0 THEN "burnin"
  ELSE IF hasTrim(opts) THEN "trim"
  ELSE "passthrough"

\* the window of the payload handed to exportWithSubtitles / trimVideo; an
\* endMs of undefined is the empty sequence
exportPayload(opts) ==
  IF exportKind(opts) = "burnin"
  THEN [startMs |-> IF hasTrim(opts) THEN startMsOf(opts) ELSE 0,
        endMs |-> IF hasTrim(opts) THEN <<endMsOf(opts)>> ELSE <<>>]
  ELSE [startMs |-> startMsOf(opts), endMs |-> <<endMsOf(opts)>>]

\* startExport(options) of the hook, with what runs of it before the first
\* await that waits for the client
startExport(opts) ==
  IF ~isFFmpegReady
  THEN /\ exportState' = ErrorState("FFmpeg not ready")
       /\ UNCHANGED <<clientVars, workerVars, isReady, hlog, captionVars>>
  ELSE IF exportKind(opts) = "passthrough"
  THEN /\ exportState' = CompletedState("input", 0)
       /\ UNCHANGED <<clientVars, workerVars, isReady, hlog, captionVars>>
  ELSE LET r == startJobResult(client)
       IN /\ IF r = "accepted"
             THEN /\ AcceptJob(nextJobId + 1, exportKind(opts), "hook",
                               exportPayload(opts))
                  /\ exportState' = ExportingState
             ELSE /\ exportState' = ErrorState(r)
                  /\ UNCHANGED <<client, nextJobId, promise, jobType, jobOwner,
                                 inbox>>
          /\ UNCHANGED <<initPromise, staticVars, captionVars, wState, outbox,
                         worker, wpc, fs, posted, sent, wlog, isReady, hlog>>

\* startExport called by a user of the hook
HookStartExport(opts) ==
  /\ startExport(opts)
  /\ UNCHANGED pageVars

\* handleExport of the video detail page: videoBlob is whether the blob query
\* has delivered the video, range is trim.range
handleExport(videoBlob, range, captions, includeSubtitles) ==
  /\ plog' = [called |-> TRUE, videoBlob |-> videoBlob, range |-> range # <<>>]
  /\ IF ~videoBlob
     THEN UNCHANGED <<clientVars, workerVars, hookVars, captionVars, exportError>>
     ELSE IF range = <<>>
     THEN /\ exportError' = "no trim range"
          /\ UNCHANGED <<clientVars, workerVars, hookVars, captionVars>>
     ELSE /\ exportError' = "null"
          /\ startExport([trimRange |-> range, captions |-> captions,
                          includeSubtitles |-> includeSubtitles])

\* cancel()
HookCancel ==
  /\ (client.currentJobId # NoJob /\ client.worker) => Len(inbox) < MaxInbox
  /\ inbox' = cancelCurrentJob(inbox)
  /\ exportState' = IdleState
  /\ hlog' = IF client.currentJobId # NoJob
                /\ jobOwner[client.currentJobId] = "hook"
             THEN hlog \cup {client.currentJobId}
             ELSE hlog
  /\ UNCHANGED <<clientVars, fixedVars, wState, outbox, worker, wpc, fs, posted, sent,
                 wlog, isReady>>

\* downloadResult without "if (!state.outputBlob) return"
downloadResult_Unguarded(es) == "download"

\* downloadResult(filename): whether it returns at once ("nothing") or
\* creates the link to state.outputBlob and clicks it ("download")
downloadResult(es) == IF es.outputBlob = "none" THEN "nothing" ELSE "download"

\* reset()
HookReset ==
  /\ exportState' = initialState
  /\ UNCHANGED <<clientVars, workerVars, isReady, hlog, fixedVars>>

\* ---------------------------------------------------------------- worker
\* A handler step is the code from one wait for the engine to the next; the
\* deleteFile calls of cleanup() are taken together with the code after them.
inputFileName(type) == IF type = "probe" THEN "probe_input.mp4" ELSE "input.mp4"
outputFileName == "output.mp4"
subtitleFileName == "subtitles.srt"

\* every cleanup([...]) call deleting the input file only
cleanupFiles_InputOnly(v, type, site) == {inputFileName(type)}

\* the file list of each cleanup([...]) call of a handler; site is where the
\* call stands: "cancel1" after the input was written, "cancel2" after the
\* encode, "finish" before completed is sent, "catch" in the catch block
cleanupFiles(v, type, site) ==
  IF type = "probe" THEN {inputFileName(type)}
  ELSE IF site = "cancel1" THEN {inputFileName(type)}
  ELSE IF v = "v4" /\ type = "burnin"
       THEN {inputFileName(type), subtitleFileName, outputFileName}
       ELSE {inputFileName(type), outputFileName}

\* cleanup(files): deleteFile on each, errors ignored
cleanup(fsys, files) == [f \in Files |-> IF f \in files THEN NoFile ELSE fsys[f]]

writeFile(fsys, f, j, bytes) == [fsys EXCEPT ![f] = [owner |-> j, bytes |-> bytes]]

\* the check "if (outputData.length === 0) throw" after reading the output
\* back: present in ffmpeg.worker (v5), absent in the v4 source
emptyOutputIsError(v) == v = "v5"

\* the cancellation checkpoints "if (cancelRequested)" of handleTrim and
\* handleBurnin; handleProbe has none
cancelCheck(type, w) == type # "probe" /\ w.cancelRequested

\* post(message): self.postMessage
post(q, msg) == Append(q, msg)

\* ---- progress
\* The sendProgress calls of one step are a sequence of <<jobId, data>>.
\* track says whether the specification follows the progress messages: they
\* change nothing in the client's protocol state, and the specifications of
\* the protocol leave them out of the queue.

\* the calls posted: post({ type: 'progress', jobId, data }) for each
sendProgress(q, calls) ==
  q \o [i \in 1..Len(calls) |-> ProgressMsg(calls[i][1], calls[i][2])]

\* nothing posted yet for a job id
Sent0 == [last |-> -1, decreased |-> FALSE]

RECURSIVE logProgress(_, _)
\* the history of the values posted per job id: the last one, and whether
\* some value was lower than the one posted before it
logProgress(h, calls) ==
  IF calls = <<>> THEN h
  ELSE LET j == Head(calls)[1]
           v == Head(calls)[2].progress
       IN logProgress([h EXCEPT ![j] = [last |-> v,
                                        decreased |-> @.decreased \/ v < @.last]],
                      Tail(calls))

\* a fixed stage value of handleTrim / handleBurnin (handleProbe posts none)
stageProgress(track, j, v, s) ==
  IF track /\ jobType[j] \in {"trim", "burnin"}
  THEN << <<j, Progress(v, s)>> >> ELSE <<>>

\* the listener ffmpeg.on('progress', ...): each event ev[i] of the engine is
\* posted under the worker's currentJobId, unless that is null
engineProgress(track, cur, ev) ==
  IF track /\ cur # NoJob
  THEN [i \in 1..Len(ev) |-> <<cur, Progress(ev[i], "encoding")>>]
  ELSE <<>>

\* a handler goes on to its next await having posted calls
Continue(calls) ==
  /\ outbox' = sendProgress(outbox, calls)
  /\ sent' = logProgress(sent, calls)

\* a handler posts its terminal message and runs its finally block
PostTerminal(j, calls, msg, w) ==
  /\ outbox' = post(sendProgress(outbox, calls), msg)
  /\ sent' = logProgress(sent, calls)
  /\ posted' = [posted EXCEPT ![j] = Append(@, msg.type)]
  /\ wpc' = [wpc EXCEPT ![j] = "done"]
  /\ wlog' = wlog \ {j}
  /\ worker' = [w EXCEPT !.currentJobId = NoJob]

\* the rest of a handler that found cancelRequested at a checkpoint
Cancelled(j, calls, fsys, site, w) ==
  /\ fs' = IF site = "cancel0" THEN fsys
           ELSE cleanup(fsys, cleanupFiles(variant, jobType[j], site))
  /\ PostTerminal(j, calls, Msg("cancelled", j), w)

\* a catch block that cleans up and posts neither cancelled nor error
Catch_Silent(j, calls, fsys, w) ==
  /\ fs' = cleanup(fsys, cleanupFiles(variant, jobType[j], "catch"))
  /\ outbox' = sendProgress(outbox, calls)
  /\ sent' = logProgress(sent, calls)
  /\ posted' = posted
  /\ wpc' = [wpc EXCEPT ![j] = "done"]
  /\ wlog' = wlog \ {j}
  /\ worker' = [w EXCEPT !.currentJobId = NoJob]

\* the catch block of a handler
Catch(j, calls, fsys, w) ==
  /\ fs' = cleanup(fsys, cleanupFiles(variant, jobType[j], "catch"))
  /\ PostTerminal(j, calls,
                  IF cancelCheck(jobType[j], w) THEN Msg("cancelled", j)
                  ELSE ErrorMsg(j, IF jobType[j] = "probe" THEN "INPUT_ERROR"
                                   ELSE "OUTPUT_ERROR"), w)

\* the end of the try block: cleanup, progress 1, then completed
\* (probe-completed)
Finish(j, calls, fsys, w) ==
  /\ fs' = cleanup(fsys, cleanupFiles(variant, jobType[j], "finish"))
  /\ PostTerminal(j, calls,
                  Msg(IF jobType[j] = "probe" THEN "probe-completed"
                      ELSE "completed", j), w)

\* handleCancel
handleCancel(w, j) ==
  IF w.currentJobId # j THEN w ELSE [w EXCEPT !.cancelRequested = TRUE]

\* the first lines of handleTrim / handleBurnin / handleProbe
startHandler(w, j) == [w EXCEPT !.currentJobId = j, !.cancelRequested = FALSE]

\* the worker script has been evaluated: post({ type: 'ready' })
WorkerBoot ==
  /\ wState = "booting"
  /\ wState' = "running"
  /\ outbox' = post(outbox, Msg("ready", NoJob))
  /\ UNCHANGED <<clientVars, hookVars, fixedVars, inbox, worker, wpc, fs, posted,
                 sent, wlog>>

\* self.onmessage.  A handler that finds the engine loaded passes its first
\* await and checkpoint within the task that started it.
WorkerRecvOn(track) ==
  /\ wState = "running"
  /\ inbox # <<>>
  /\ inbox' = Tail(inbox)
  /\ LET msg == Head(inbox)
         j == msg.jobId
     IN CASE msg.type = "init" ->
               /\ IF worker.ffmpegLoaded
                  THEN /\ outbox' = post(outbox, InitComplete(TRUE))
                       /\ UNCHANGED worker
                  ELSE /\ worker' = [worker EXCEPT !.initLoading = TRUE]
                       /\ UNCHANGED outbox
               /\ UNCHANGED <<wpc, wlog, sent>>
          [] msg.type \in JobTypes ->
               /\ worker' = startHandler(worker, j)
               /\ wpc' = [wpc EXCEPT ![j] = IF worker.ffmpegLoaded THEN "write"
                                            ELSE "load"]
               /\ Continue(stageProgress(track, j, 5, "initializing")
                           \o IF worker.ffmpegLoaded
                              THEN stageProgress(track, j, 10, "loading input")
                              ELSE <<>>)
               /\ UNCHANGED wlog
          [] msg.type = "cancel" ->
               /\ worker' = handleCancel(worker, j)
               /\ wlog' = IF worker.currentJobId = j
                             /\ jobType[j] \in {"trim", "burnin"}
                             /\ wpc[j] \in {"load", "write", "exec"}
                          THEN wlog \cup {j} ELSE wlog
               /\ UNCHANGED <<outbox, wpc, sent>>
  /\ UNCHANGED <<clientVars, hookVars, fixedVars, wState, fs, posted>>

WorkerRecv == WorkerRecvOn(FALSE)

\* the engine load started by the init message ends
WorkerInitLoadDone(ok) ==
  /\ wState = "running"
  /\ worker.initLoading
  /\ worker' = [worker EXCEPT !.initLoading = FALSE,
                              !.ffmpegLoaded = IF ok THEN TRUE ELSE @]
  /\ outbox' = post(outbox, InitComplete(ok))
  /\ UNCHANGED <<clientVars, hookVars, fixedVars, wState, inbox, wpc, fs, posted,
                 sent, wlog>>

\* "await ensureFFmpegLoaded()" of a handler ends; first checkpoint
JobLoadOn(j, ok, track) ==
  /\ wState = "running"
  /\ wpc[j] = "load"
  /\ IF ~ok THEN Catch(j, <<>>, fs, worker)
     ELSE LET w == [worker EXCEPT !.ffmpegLoaded = TRUE]
          IN IF cancelCheck(jobType[j], w)
             THEN Cancelled(j, <<>>, fs, "cancel0", w)
             ELSE /\ wpc' = [wpc EXCEPT ![j] = "write"]
                  /\ worker' = w
                  /\ Continue(stageProgress(track, j, 10, "loading input"))
                  /\ UNCHANGED <<posted, wlog, fs>>
  /\ UNCHANGED <<clientVars, hookVars, fixedVars, wState, inbox>>

JobLoad(j, ok) == JobLoadOn(j, ok, FALSE)

\* "await fetchFile(inputBlob); await ffmpeg.writeFile(inputFileName, ...)";
\* second checkpoint (handleProbe goes on to its end).  handleTrim posts 0.2
\* and starts the engine; handleBurnin has the font / the subtitle file to
\* wait for first.
JobWriteOn(j, ok, track) ==
  /\ wState = "running"
  /\ wpc[j] = "write"
  /\ IF ~ok THEN Catch(j, <<>>, fs, worker)
     ELSE LET fs1 == writeFile(fs, inputFileName(jobType[j]), j, "data")
          IN IF cancelCheck(jobType[j], worker)
             THEN Cancelled(j, <<>>, fs1, "cancel1", worker)
             ELSE IF jobType[j] = "probe" THEN Finish(j, <<>>, fs1, worker)
             ELSE /\ fs' = fs1
                  /\ wpc' = [wpc EXCEPT ![j] = "exec"]
                  /\ Continue(IF jobType[j] = "trim"
                              THEN stageProgress(track, j, 20, "encoding")
                              ELSE <<>>)
                  /\ UNCHANGED <<posted, wlog, worker>>
  /\ UNCHANGED <<clientVars, hookVars, fixedVars, wState, inbox>>

JobWrite(j, ok) == JobWriteOn(j, ok, FALSE)

ExecResults == {"data", "empty", "nofile", "throw"}

\* the engine run "await ffmpeg.exec(args)", with what precedes it after the
\* second checkpoint: the subtitle file (v4 burn-in) or the font (v5 burn-in),
\* then the 0.2 of handleBurnin.  The engine emits the progress events ev
\* while it runs and leaves an output with bytes, an empty output or no
\* output, or the step throws: in the engine run, or (early) before it, when
\* the font or the subtitle file fails.  Third checkpoint.
JobExecOn(j, res, ev, early, track) ==
  /\ wState = "running"
  /\ wpc[j] = "exec"
  /\ LET withSub == variant = "v4" /\ jobType[j] = "burnin"
         fs1 == IF withSub THEN writeFile(fs, subtitleFileName, j, "data") ELSE fs
         fs2 == IF res = "nofile" THEN fs1
                ELSE writeFile(fs1, outputFileName, j, res)
         calls == (IF jobType[j] = "burnin"
                   THEN stageProgress(track, j, 20, "encoding") ELSE <<>>)
                  \o engineProgress(track, worker.currentJobId, ev)
     IN IF res = "throw"
        THEN Catch(j, IF early /\ jobType[j] = "burnin" THEN <<>> ELSE calls,
                   fs1, worker)
        ELSE IF cancelCheck(jobType[j], worker)
        THEN Cancelled(j, calls, fs2, "cancel2", worker)
        ELSE /\ fs' = fs2
             /\ wpc' = [wpc EXCEPT ![j] = "read"]
             /\ Continue(calls \o stageProgress(track, j, 90, "reading output"))
             /\ UNCHANGED <<posted, wlog, worker>>
  /\ UNCHANGED <<clientVars, hookVars, fixedVars, wState, inbox>>

JobExec(j, res) == JobExecOn(j, res, <<>>, FALSE, FALSE)

\* what "await ffmpeg.readFile(outputFileName)" gives: "missing" (it throws),
\* "empty" or "data"
readFile(fsys, f) == IF fsys[f].owner = NoJob THEN "missing" ELSE fsys[f].bytes

\* the output is read back and checked, then the handler ends
JobReadOn(j, track) ==
  /\ wState = "running"
  /\ wpc[j] = "read"
  /\ LET outputData == readFile(fs, outputFileName)
     IN IF outputData = "missing"
           \/ (outputData = "empty" /\ emptyOutputIsError(variant))
        THEN Catch(j, <<>>, fs, worker)
        ELSE Finish(j, stageProgress(track, j, 100, "complete"), fs, worker)
  /\ UNCHANGED <<clientVars, hookVars, fixedVars, wState, inbox>>

JobRead(j) == JobReadOn(j, FALSE)

\* ---------------------------------------------------------------- system
\* ---------------------------------------------------------------- workers
\* The Worker objects of repeated initFFmpegWorker calls.  A Worker object is
\* [created, alive (terminate() has not been called on it), listener (its
\* message listener: "init" for initHandler, "main" for handleWorkerMessage
\* with handleWorkerError on its error event), timer (the INIT_TIMEOUT_MS
\* timer of the call that created it is armed), status (of the promise that
\* call returned), phase (of the worker script: "script" before it has been
\* evaluated, "loading" while the engine load started by init runs, "idle"),
\* out (its messages on the way to the client)].
WorkerIds == 1..MaxWorkers

\* state.worker = null
NoWorker == 0

\* the mount effect of the hook has called initFFmpegWorker() once
Pool0 ==
  LET none == [created |-> FALSE, alive |-> FALSE, listener |-> "none",
               timer |-> FALSE, status |-> "none", phase |-> "none",
               out |-> <<>>]
  IN  [workers |-> [w \in WorkerIds |->
                      IF w = 1
                      THEN [none EXCEPT !.created = TRUE, !.alive = TRUE,
                                        !.listener = "init", !.timer = TRUE,
                                        !.status = "pending",
                                        !.phase = "script"]
                      ELSE none],
       worker |-> NoWorker,
       isInitialized |-> FALSE]

\* worker.terminate()
terminate(ws, w) ==
  [ws EXCEPT ![w].alive = FALSE, ![w].out = <<>>, ![w].phase = "none"]

\* a step that concerns the Worker objects only
PoolStep(p) ==
  /\ pool' = p
  /\ UNCHANGED <<clientVars, variant, wState, inbox, outbox, worker, wpc, fs,
                 posted, wlog, sent, hookVars, pageVars, captionVars>>

\* initFFmpegWorker(): returns at once when the client is ready; else
\* terminates state.worker if it is set, creates a Worker, arms its timer,
\* adds initHandler and posts init
initFFmpegWorker ==
  IF pool.isInitialized /\ pool.worker # NoWorker THEN PoolStep(pool)
  ELSE \E w \in WorkerIds :
         /\ ~pool.workers[w].created
         /\ \A v \in 1..(w - 1) : pool.workers[v].created
         /\ LET ws == IF pool.worker # NoWorker
                      THEN terminate(pool.workers, pool.worker)
                      ELSE pool.workers
            IN  PoolStep([pool EXCEPT
                            !.workers = [ws EXCEPT ![w] = Pool0.workers[1]],
                            !.worker = NoWorker])

\* the script of Worker w has been evaluated: post({ type: 'ready' }); the
\* init message posted at its creation is taken next
PoolBoot(w) ==
  /\ pool.workers[w].alive
  /\ pool.workers[w].phase = "script"
  /\ PoolStep([pool EXCEPT !.workers[w].phase = "loading",
                           !.workers[w].out = Append(@, Msg("ready", NoJob))])

\* the engine load started by init ends in Worker w: init-complete
PoolLoadDone(w, ok) ==
  /\ pool.workers[w].alive
  /\ pool.workers[w].phase = "loading"
  /\ PoolStep([pool EXCEPT !.workers[w].phase = "idle",
                           !.workers[w].out = Append(@, InitComplete(ok))])

\* the client takes the next message of Worker w: initHandler of the call
\* that created w, or handleWorkerMessage ('ready' and 'init-complete' fall
\* through)
PoolRecv(w) ==
  /\ pool.workers[w].alive
  /\ pool.workers[w].out # <<>>
  /\ LET msg == Head(pool.workers[w].out)
         taken == [pool EXCEPT !.workers[w].out = Tail(@)]
     IN  IF pool.workers[w].listener # "init" THEN PoolStep(taken)
         ELSE IF msg.type = "ready" \/ msg = InitComplete(TRUE)
         THEN PoolStep([taken EXCEPT !.workers[w].timer = FALSE,
                                     !.workers[w].listener = "main",
                                     !.workers[w].status = "resolved",
                                     !.worker = w,
                                     !.isInitialized = TRUE])
         ELSE IF msg.type = "init-complete"
         THEN PoolStep([taken EXCEPT
                          !.workers = [terminate(@, w) EXCEPT
                                         ![w].timer = FALSE,
                                         ![w].status = "INIT_FAILED"]])
         ELSE PoolStep(taken)

\* the INIT_TIMEOUT_MS timer of the call that created Worker w
PoolInitTimeout(w) ==
  /\ pool.workers[w].timer
  /\ PoolStep([pool EXCEPT
                 !.workers = [terminate(@, w) EXCEPT
                                ![w].timer = FALSE,
                                ![w].status = IF @ = "pending" THEN "TIMEOUT"
                                              ELSE @]])

\* the error event of Worker w, whose handleWorkerError listener was added
\* when its init succeeded: no job is in flight
PoolErrorEvent(w) ==
  /\ pool.workers[w].alive
  /\ pool.workers[w].listener = "main"
  /\ PoolStep([pool EXCEPT !.isInitialized = FALSE, !.worker = NoWorker])

\* terminateFFmpegWorker(), no job in flight
PoolTerminate ==
  PoolStep([pool EXCEPT
              !.workers = IF pool.worker # NoWorker
                          THEN terminate(@, pool.worker) ELSE @,
              !.worker = NoWorker,
              !.isInitialized = FALSE])

\* no caption function has been called
NoCall == [op |-> "none"]

\* the page has mounted the hook: its effect has called initFFmpegWorker(),
\* which created the worker and posted init
\* the application's state once its modules are loaded and the hook mounted
SystemInit ==
  /\ client = ClientState0
  /\ nextJobId = 0
  /\ promise = [j \in Jobs |-> Promise0]
  /\ jobType = [j \in Jobs |-> "none"]
  /\ jobOwner = [j \in Jobs |-> "none"]
  /\ initPromise = [status |-> "pending", owner |-> "hook", timer |-> TRUE,
                    calls |-> 0]
  /\ variant \in Variants
  /\ pool = Pool0
  /\ wState = "booting"
  /\ inbox = <<Msg("init", NoJob)>>
  /\ outbox = <<>>
  /\ worker = Worker0
  /\ wpc = [j \in Jobs |-> "none"]
  /\ fs = Fs0
  /\ posted = [j \in Jobs |-> <<>>]
  /\ wlog = {}
  /\ sent = [j \in Jobs |-> Sent0]
  /\ exportState = [initialState EXCEPT !.status = "initializing"]
  /\ isReady = FALSE
  /\ hlog = {}
  /\ exportError = "null"
  /\ plog = [called |-> FALSE, videoBlob |-> FALSE, range |-> FALSE]

Init ==
  /\ SystemInit
  /\ cin = NoCall
  /\ cout = NoCall

WorkerNext ==
  \/ WorkerBoot
  \/ WorkerRecv
  \/ \E ok \in BOOLEAN : WorkerInitLoadDone(ok)
  \/ \E j \in Jobs, ok \in BOOLEAN : JobLoad(j, ok)
  \/ \E j \in Jobs, ok \in BOOLEAN : JobWrite(j, ok)
  \/ \E j \in Jobs, res \in ExecResults : JobExec(j, res)
  \/ \E j \in Jobs : JobRead(j)

\* the protocol: the client's functions called directly, and the worker
Next ==
  \/ \E t \in JobTypes : EnvStart(t)
  \/ EnvStartWithHandle
  \/ \E j \in Jobs : HandleCancel(j)
  \/ EnvCancel
  \/ terminateFFmpegWorker
  \/ WorkerErrorEvent
  \/ \E j \in Jobs : Timeout(j)
  \/ InitTimeout
  \/ ClientRecv
  \/ WorkerNext

Spec == Init /\ [][Next]_vars

\* the controller: the hook's functions, the client behind it, and the worker
HookNext ==
  \/ \E o \in ExportOptions : HookStartExport(o)
  \/ HookCancel
  \/ HookReset
  \/ WorkerErrorEvent
  \/ \E j \in Jobs : Timeout(j)
  \/ InitTimeout
  \/ ClientRecv
  \/ WorkerNext

HookSpec == Init /\ [][HookNext]_vars

\* the start operations of the hook and of the client: startExport and the
\* client's start functions called directly, with what makes the client
\* ready or not ready (init, worker crash, terminate)
StartNext ==
  \/ \E o \in ExportOptions : HookStartExport(o)
  \/ \E t \in JobTypes : EnvStart(t)
  \/ EnvStartWithHandle
  \/ terminateFFmpegWorker
  \/ WorkerErrorEvent
  \/ InitTimeout
  \/ ClientRecv
  \/ WorkerNext

StartSpec == Init /\ [][StartNext]_vars

\* the export section of the video detail page: handleExport, and startExport
\* called with any options, over the client and the worker
PageNext ==
  \/ \E videoBlob \in BOOLEAN, range \in TrimRanges, captions \in {0, 1},
        includeSubtitles \in BOOLEAN :
        handleExport(videoBlob, range, captions, includeSubtitles)
  \/ \E o \in ExportOptions : HookStartExport(o)
  \/ InitTimeout
  \/ ClientRecv
  \/ WorkerNext

PageSpec == Init /\ [][PageNext]_vars

\* what the engine reports during one run: progress values in percent, taken
\* to be within 0..100 and never decreasing
EngineValues == {0, 50, 100}
EngineRuns ==
  {ev \in UNION {[1..n -> EngineValues] : n \in 0..MaxEvents} :
     \A i \in 1..(Len(ev) - 1) : ev[i] <= ev[i + 1]}

\* the controller with the progress messages followed, for the first export
\* of the page: the hook starts it and may cancel it, the worker posts
\* progress, the client hands it to the hook
ProgressNext ==
  \/ \E o \in ExportOptions : nextJobId = 0 /\ HookStartExport(o)
  \/ HookCancel
  \/ ClientRecv
  \/ WorkerBoot
  \/ WorkerRecvOn(TRUE)
  \/ \E ok \in BOOLEAN : WorkerInitLoadDone(ok)
  \/ \E j \in Jobs, ok \in BOOLEAN : JobLoadOn(j, ok, TRUE)
  \/ \E j \in Jobs, ok \in BOOLEAN : JobWriteOn(j, ok, TRUE)
  \/ \E j \in Jobs, res \in ExecResults, ev \in EngineRuns, early \in BOOLEAN :
        JobExecOn(j, res, ev, early, TRUE)
  \/ \E j \in Jobs : JobReadOn(j, TRUE)

ProgressSpec == Init /\ [][ProgressNext]_vars

\* the protocol with the scheduling the claims on termination assume: an
\* armed job timer fires, a delivered message is processed
LiveSpec ==
  /\ Init
  /\ [][Next]_vars
  /\ \A j \in Jobs : WF_vars(Timeout(j))
  /\ WF_vars(ClientRecv)

\* ---------------------------------------------------------------- properties
StartCall == (\E t \in JobTypes : EnvStart(t)) \/ EnvStartWithHandle

\* C1: while a job is in flight, a call of trimVideo, exportWithSubtitles,
\* probeVideo or startExportWithHandle fails the checks with INVALID_ARGS,
\* posts nothing to the worker and leaves the client state (callback records,
\* timers, currentJobId), the job ids and every promise as they were.
C1_BusyStartRejected ==
  /\ [](isJobRunning => /\ startJobResult(client) = "INVALID_ARGS"
                        /\ startExportWithHandleResult(client) = "INVALID_ARGS")
  /\ [][(isJobRunning /\ StartCall)
          => UNCHANGED <<inbox, client, promise, nextJobId>>]_vars

\* a job is in flight with its record and timer in place, its request is still
\* in the worker's inbox, and a start call now is refused with INVALID_ARGS
C1_Witness ==
  /\ isJobRunning
  /\ client.currentJobId \in client.jobCallbacks \cap client.timers
  /\ promise[client.currentJobId].outcome = "pending"
  /\ startJobResult(client) = "INVALID_ARGS"
  /\ inbox # <<>>

\* C2: the resolving functions of an accepted job's promise are called at most
\* once in all, whatever the order of terminal messages, timeout, worker error
\* event and terminateFFmpegWorker.
C2_SettledAtMostOnce ==
  \A j \in Jobs :
    /\ promise[j].calls <= 1
    /\ promise[j].calls = 1 <=> promise[j].outcome \notin {"none", "pending"}

\* one job resolved; for another the worker had posted its terminal message,
\* but terminateFFmpegWorker rejected it first
C2_Witness ==
  \E j, k \in Jobs :
    /\ promise[j] = [outcome |-> "resolved", calls |-> 1]
    /\ promise[k] = [outcome |-> "TERMINATED", calls |-> 1]
    /\ posted[k] # <<>>

\* C3: every accepted job's promise is eventually resolved or rejected, given
\* that its timer fires and delivered messages are processed, even if the
\* worker never answers.
C3_EventuallySettled ==
  \A j \in Jobs :
    (promise[j].outcome = "pending") ~> (promise[j].outcome \notin {"none", "pending"})

\* a job was rejected by its timer while its handler had posted nothing
C3_Witness ==
  \E j \in Jobs :
    /\ promise[j].outcome = "TIMEOUT"
    /\ posted[j] = <<>>
    /\ wpc[j] \in ActivePc

\* C4: when a job's timer fires while the worker is encoding, the promise is
\* rejected once with TIMEOUT and a cancel message with the job's id is posted;
\* the promise keeps that outcome, and a completed message processed later for
\* the same id changes neither the promises nor the client state.
C4_TimeoutWhileEncoding ==
  [][\A j \in Jobs :
       /\ (wpc[j] = "exec" /\ Timeout(j))
            => /\ promise'[j] = [outcome |-> "TIMEOUT", calls |-> 1]
               /\ inbox' = Append(inbox, Msg("cancel", j))
               /\ j \notin client'.jobCallbacks
       /\ (promise[j].outcome = "TIMEOUT") => promise'[j] = promise[j]
       /\ (/\ promise[j].outcome = "TIMEOUT"
           /\ outbox # <<>>
           /\ Head(outbox) = Msg("completed", j)
           /\ ClientRecv)
            => /\ promise' = promise
               /\ client' = client
               /\ exportState' = exportState]_vars

\* the timer of a job has just fired during its encode step: the job is
\* rejected with TIMEOUT and its cancel is on the way to the worker
C4_Witness ==
  \E j \in Jobs :
    /\ promise[j] = [outcome |-> "TIMEOUT", calls |-> 1]
    /\ wpc[j] = "exec"
    /\ inbox # <<>>
    /\ inbox[Len(inbox)] = Msg("cancel", j)

\* C5: the worker's error event rejects every in-flight job once with the
\* 'Worker crashed' error, empties the job table, clears currentJobId and
\* leaves the client uninitialized: isFFmpegReady() is false.
C5_WorkerCrash ==
  [][WorkerErrorEvent
       => /\ \A j \in Jobs :
               promise'[j] = IF j \in client.jobCallbacks
                             THEN [outcome |-> "WORKER_CRASHED", calls |-> 1]
                             ELSE promise[j]
          /\ client'.jobCallbacks = {}
          /\ client'.timers = {}
          /\ ~isJobRunning'
          /\ ~client'.isInitialized
          /\ ~isFFmpegReady']_vars

\* a job was in flight when the worker's error event was handled
C5_Witness ==
  /\ \E j \in Jobs : promise[j] = [outcome |-> "WORKER_CRASHED", calls |-> 1]
  /\ client.jobCallbacks = {}
  /\ ~isFFmpegReady

\* C6: after an initialization failure or a worker crash, a later startExport
\* starts a new initialization of the worker.
C6_StartExportReinitializes ==
  [][(/\ ~isFFmpegReady
      /\ initPromise.status # "pending"
      /\ \E o \in ExportOptions : HookStartExport(o))
       => initPromise'.status = "pending"]_vars

\* C7: a trim or burn-in job whose cancel the worker took, while running it,
\* before its last checkpoint ends with cancelled and with nothing else.
C7_CancelHonored ==
  [][\A j \in wlog : posted'[j] # posted[j] => posted'[j] = <<"cancelled">>]_vars

\* C8: once the worker has posted a job's terminal message, the filesystem
\* holds no file this job wrote.
C8_NoStagedFilesLeft ==
  \A j \in Jobs : posted[j] # <<>> => \A f \in Files : fs[f].owner # j

\* a v4 burn-in job (input, subtitle and output file written) has completed
\* and the filesystem is empty
C8_Witness ==
  \E j \in Jobs :
    /\ variant = "v4"
    /\ jobType[j] = "burnin"
    /\ posted[j] = <<"completed">>
    /\ fs = Fs0

\* C9: a trim or burn-in job that reads back an empty output does not end with
\* completed.
C9_EmptyOutputNotCompleted ==
  [][\A j \in Jobs :
       (/\ wpc[j] = "read"
        /\ fs[outputFileName] = [owner |-> j, bytes |-> "empty"]
        /\ posted'[j] # posted[j])
         => posted'[j] # <<"completed">>]_vars

\* C10: once cancel() has put the controller in idle during an export, the
\* worker's cancelled acknowledgement of that job does not put it in error.
C10_CancelStaysIdle ==
  [][\A j \in hlog :
       (/\ exportState.status = "idle"
        /\ outbox # <<>>
        /\ Head(outbox) = Msg("cancelled", j)
        /\ ClientRecv)
         => exportState'.status # "error"]_vars

\* the client hands a progress message to the hook's handleProgress
ProgressDelivered ==
  /\ ClientRecv
  /\ initPromise.status # "pending"
  /\ Head(outbox).type = "progress"
  /\ Head(outbox).jobId \in client.jobCallbacks
  /\ jobOwner[Head(outbox).jobId] = "hook"

\* C11: the progress values the worker posts for one job id never decrease
\* from one to the next, and handleProgress never lowers the state.progress
\* of an export that is under way.
C11_ProgressNonDecreasing ==
  /\ [](\A j \in Jobs : ~sent[j].decreased)
  /\ [][(ProgressDelivered /\ exportState.status = "exporting")
          => exportState'.progress >= exportState.progress]_vars

\* C12: on a client that is not ready, the start functions fail the checks
\* with NOT_READY; a call of trimVideo, exportWithSubtitles, probeVideo or
\* startExportWithHandle then creates no job id, record or timer and posts
\* nothing, a call of startExport sets the controller state to error with a
\* message and leaves the client and the worker's inbox as they were; nothing
\* of the call is left that could run later.
C12_FailFast ==
  /\ [](~isFFmpegReady => /\ startJobResult(client) = "NOT_READY"
                          /\ startExportWithHandleResult(client) = "NOT_READY")
  /\ [][~isFFmpegReady =>
          /\ StartCall => UNCHANGED <<clientVars, inbox, hookVars>>
          /\ (\E o \in ExportOptions : HookStartExport(o))
               => /\ exportState'.status = "error"
                  /\ exportState'.error = "FFmpeg not ready"
                  /\ UNCHANGED <<clientVars, inbox, hlog>>]_vars

\* startExport was refused while the client was not ready, the worker has
\* become ready since, and no job exists and no request is in the inbox
C12_Witness ==
  /\ isFFmpegReady
  /\ exportState = ErrorState("FFmpeg not ready")
  /\ nextJobId = 0
  /\ client.jobCallbacks = {} /\ client.timers = {}
  /\ \A i \in 1..Len(inbox) : inbox[i].type \notin JobTypes

\* the options the claim C13 is about: no usable trim window, and subtitles
\* excluded or no captions
NoWindow(o) ==
  o.trimRange = <<>> \/ o.trimRange[1].endMs <= o.trimRange[1].startMs
NoSubtitles(o) == ~o.includeSubtitles \/ o.captions = 0

\* what C13 says startExport does
PassedThrough ==
  /\ exportState'.status = "completed"
  /\ exportState'.progress = 100
  /\ exportState'.outputBlob = "input"
  /\ exportState'.elapsedMs = <<0>>
  /\ UNCHANGED <<clientVars, inbox>>

\* C13 as amended: on a ready client, startExport with no usable trim window
\* and no subtitles to burn in sets the controller state to completed with
\* progress 1, the input blob as output and elapsed time 0, sends nothing to
\* the worker and changes no job record.
C13_PassThroughWhenReady ==
  [][\A o \in ExportOptions :
       (NoWindow(o) /\ NoSubtitles(o) /\ isFFmpegReady /\ HookStartExport(o))
         => PassedThrough]_vars

\* a pass-through export has completed on a ready client with no job created
C13_Witness ==
  /\ isFFmpegReady
  /\ exportState = CompletedState("input", 0)
  /\ nextJobId = 0
  /\ inbox = <<>>

\* C13 as stated: startExport with no usable trim window and no subtitles to
\* burn in moves the controller to completed, whatever the client's state.
C13_PassThrough ==
  [][\A o \in ExportOptions :
       (NoWindow(o) /\ NoSubtitles(o) /\ HookStartExport(o))
         => PassedThrough]_vars

\* a window sent to the worker by the hook has its end after its start, or
\* no end at all
WindowsSentValid ==
  \A i \in 1..Len(inbox) :
    (inbox[i].type \in {"trim", "burnin"} /\ jobOwner[inbox[i].jobId] = "hook")
      => \/ inbox[i].data.endMs = <<>>
         \/ inbox[i].data.endMs[1] > inbox[i].data.startMs

\* a handleExport call with no trim range dispatches nothing
NoRangeNoDispatch ==
  [][\A videoBlob \in BOOLEAN, captions \in {0, 1}, includeSubtitles \in BOOLEAN :
       handleExport(videoBlob, <<>>, captions, includeSubtitles)
         => UNCHANGED <<clientVars, workerVars, hookVars>>]_vars

Null == [isNull |-> TRUE]

Some(v) == [isNull |-> FALSE, value |-> v]

Max(a, b) == IF a >= b THEN a ELSE b

Min(a, b) == IF a <= b THEN a ELSE b

Whitespace == {" ", "\n"}

\* Array.prototype.join
RECURSIVE joinText(_, _)
joinText(texts, sep) ==
  IF texts = <<>> THEN <<>>
  ELSE IF Len(texts) = 1 THEN texts[1]
  ELSE texts[1] \o sep \o joinText(Tail(texts), sep)

\* the whitespace-separated tokens of a text; cur is the token being read
RECURSIVE splitTokens(_, _)
splitTokens(text, cur) ==
  LET done == IF cur = <<>> THEN <<>> ELSE <<cur>>
  IN  IF text = <<>> THEN done
      ELSE IF Head(text) \in Whitespace
           THEN done \o splitTokens(Tail(text), <<>>)
           ELSE splitTokens(Tail(text), Append(cur, Head(text)))

\* String.prototype.trim: from the first symbol that is not whitespace to
\* the last
trim(text) ==
  LET S == {i \in 1..Len(text) : text[i] \notin Whitespace}
  IN  IF S = {} THEN <<>>
      ELSE SubSeq(text, CHOOSE i \in S : \A k \in S : i <= k,
                        CHOOSE i \in S : \A k \in S : i >= k)

\* Array.prototype.slice(from, to): a negative index counts from the end
slice(s, from, to) ==
  LET at(k) == IF k < 0 THEN Max(Len(s) + k, 0) ELSE Min(k, Len(s))
  IN  IF at(to) <= at(from) THEN <<>> ELSE SubSeq(s, at(from) + 1, at(to))

sliceFrom(s, from) == slice(s, from, Len(s))

\* Array.prototype.sort((a, b) => a.startMs - b.startMs): stable, so
\* elements with equal startMs keep the order they had
RECURSIVE insertByStartMs(_, _)
insertByStartMs(sorted, x) ==
  IF sorted = <<>> THEN <<x>>
  ELSE IF Head(sorted).startMs > x.startMs THEN <<x>> \o sorted
  ELSE <<Head(sorted)>> \o insertByStartMs(Tail(sorted), x)

RECURSIVE sortByStartMs(_)
sortByStartMs(s) ==
  IF s = <<>> THEN <<>>
  ELSE insertByStartMs(sortByStartMs(SubSeq(s, 1, Len(s) - 1)), s[Len(s)])

wordTexts(words) == [i \in 1..Len(words) |-> words[i].text]

\* computeFallbackWordTimings (./wordHighlight): the caption's own words
\* when it has them, else one word per text token, the caption's span
\* divided evenly among them
computeFallbackWordTimings(caption) ==
  IF caption.words # <<>> THEN caption.words[1]
  ELSE LET toks == splitTokens(caption.text, <<>>)
           n == Len(toks)
           span == caption.endMs - caption.startMs
       IN  [i \in 1..n |->
              [text |-> toks[i],
               startMs |-> caption.startMs + ((i - 1) * span) \div n,
               endMs |-> caption.startMs + (i * span) \div n]]

\* makeCaptionId: a random identifier, one value standing for all of them
makeCaptionId == "cap_new"

indexInRange_Unchecked(wordIndex, len) == TRUE

\* the first early return of the split functions, negated
indexInRange(wordIndex, len) == ~(wordIndex <= 0 \/ wordIndex >= len)

splitCaptionNewline(caption, wordIndex) ==
  LET words == computeFallbackWordTimings(caption)
      head == joinText(wordTexts(slice(words, 0, wordIndex)), <<" ">>)
      tail == joinText(wordTexts(sliceFrom(words, wordIndex)), <<" ">>)
      textWithBreak ==
        joinText(SelectSeq(<<head, tail>>, LAMBDA t : t # <<>>), <<"\n">>)
  IN  IF ~indexInRange(wordIndex, Len(words)) THEN Null
      ELSE Some([caption EXCEPT !.text = textWithBreak, !.words = <<words>>])

\* splitCaptionNext as file ("captionOps" or "queries") defines it:
\* captionOps.ts ends the first caption at the split word's start and
\* starts the second 1 ms later, queries.ts keeps the first caption at
\* least 10 ms long and starts the second at the split word's start
splitCaptionNext(file, caption, wordIndex) ==
  LET words == computeFallbackWordTimings(caption)
      headWords == slice(words, 0, wordIndex)
      tailWords == sliceFrom(words, wordIndex)
      splitMs == tailWords[1].startMs
      firstEnd == IF file = "queries"
                  THEN Max(splitMs, caption.startMs + 10) ELSE splitMs
      secondStart == IF file = "queries" THEN splitMs ELSE splitMs + 1
      secondEnd == Max(secondStart + 10, caption.endMs)
      firstCaption ==
        [caption EXCEPT !.endMs = firstEnd,
                        !.text = joinText(wordTexts(headWords), <<" ">>),
                        !.words = <<headWords>>]
      secondCaption ==
        [caption EXCEPT !.id = makeCaptionId,
                        !.startMs = secondStart,
                        !.endMs = secondEnd,
                        !.text = joinText(wordTexts(tailWords), <<" ">>),
                        !.words = <<tailWords>>]
  IN  IF ~indexInRange(wordIndex, Len(words)) THEN Null
      ELSE IF Len(headWords) = 0 \/ Len(tailWords) = 0 THEN Null
      ELSE Some(<<firstCaption, secondCaption>>)

mergeCaptions_KeepSpan(a, b) ==
  LET mergedWords == sortByStartMs(computeFallbackWordTimings(a)
                                   \o computeFallbackWordTimings(b))
  IN  [a EXCEPT !.text = joinText(wordTexts(mergedWords), <<" ">>),
                !.words = <<mergedWords>>]

mergeCaptions(a, b) ==
  LET wordsA == computeFallbackWordTimings(a)
      wordsB == computeFallbackWordTimings(b)
      mergedWords == sortByStartMs(wordsA \o wordsB)
  IN  [a EXCEPT !.startMs = Min(a.startMs, b.startMs),
                !.endMs = Max(a.endMs, b.endMs),
                !.text = joinText(wordTexts(mergedWords), <<" ">>),
                !.words = <<mergedWords>>]

\* index of the first caption with the id, 0 when there is none
\* (Array.prototype.find / findIndex)
findIndex(captions, captionId) ==
  LET S == {i \in 1..Len(captions) : captions[i].id = captionId}
  IN  IF S = {} THEN 0 ELSE CHOOSE i \in S : \A k \in S : i <= k

\* captions.flatMap((c) => (c.id === captionId ? repl : [c]))
RECURSIVE flatMapReplace(_, _, _)
flatMapReplace(captions, captionId, repl) ==
  IF captions = <<>> THEN <<>>
  ELSE (IF Head(captions).id = captionId THEN repl ELSE <<Head(captions)>>)
       \o flatMapReplace(Tail(captions), captionId, repl)

\* applySplitCaption and applyMergeCaption return [result, captions]:
\* what the call returns and the argument array as the call leaves it
\* (map, flatMap and [...captions] build new arrays; sort sorts the array
\* it is called on)
applySplitCaption(captions, captionId, wordIndex, mode) ==
  LET at == findIndex(captions, captionId)
      target == captions[at]
      updated == splitCaptionNewline(target, wordIndex)
      result == splitCaptionNext("captionOps", target, wordIndex)
      out ==
        IF at = 0 THEN Null
        ELSE IF mode = "newline"
        THEN IF updated.isNull THEN Null
             ELSE Some(sortByStartMs(
                    flatMapReplace(captions, captionId, <<updated.value>>)))
        ELSE IF result.isNull THEN Null
             ELSE Some(sortByStartMs(
                    flatMapReplace(captions, captionId, result.value)))
  IN  [result |-> out, captions |-> captions]

\* applyMergeCaption without the sort of the input: the neighbour is taken
\* in the order the array has
applyMergeCaption_Unsorted(captions, captionId, direction) ==
  LET idx == findIndex(captions, captionId)
      neighborIdx == IF direction = "up" THEN idx - 1 ELSE idx + 1
      a == IF direction = "up" THEN captions[neighborIdx] ELSE captions[idx]
      b == IF direction = "up" THEN captions[idx] ELSE captions[neighborIdx]
      rest == SelectSeq([i \in 1..Len(captions) |->
                           [i |-> i, c |-> captions[i]]],
                        LAMBDA e : e.i # idx /\ e.i # neighborIdx)
      out ==
        IF idx = 0 THEN Null
        ELSE IF neighborIdx < 1 \/ neighborIdx > Len(captions) THEN Null
        ELSE Some(sortByStartMs(
               Append([i \in 1..Len(rest) |-> rest[i].c],
                      mergeCaptions(a, b))))
  IN  [result |-> out, captions |-> captions]

applyMergeCaption(captions, captionId, direction) ==
  LET sorted == sortByStartMs(captions)
      idx == findIndex(sorted, captionId)
      neighborIdx == IF direction = "up" THEN idx - 1 ELSE idx + 1
      a == IF direction = "up" THEN sorted[neighborIdx] ELSE sorted[idx]
      b == IF direction = "up" THEN sorted[idx] ELSE sorted[neighborIdx]
      merged == mergeCaptions(a, b)
      others == {i \in 1..Len(sorted) : i # idx /\ i # neighborIdx}
      rest == SelectSeq([i \in 1..Len(sorted) |-> [i |-> i, c |-> sorted[i]]],
                        LAMBDA e : e.i \in others)
      out ==
        IF idx = 0 THEN Null
        ELSE IF neighborIdx < 1 \/ neighborIdx > Len(sorted) THEN Null
        ELSE Some(sortByStartMs(
               Append([i \in 1..Len(rest) |-> rest[i].c], merged)))
  IN  [result |-> out, captions |-> captions]

\* --- the captions the editing functions are applied to ---

\* a caption of n words that starts at s and is w long; kept: its words
\* field holds the timings it had when it spanned 0..30 (a time edit keeps
\* the words field)
InputCaption(id, s, w, n, kept) ==
  LET tokens == IF id = "c1" THEN <<"a", "b", "c", "d", "e">>
                ELSE <<"v", "w", "x", "y", "z">>
      base == [id |-> id, startMs |-> s, endMs |-> s + w,
               text |-> joinText([i \in 1..n |-> <<tokens[i]>>], <<" ">>),
               words |-> <<>>]
      before == [base EXCEPT !.startMs = 0, !.endMs = 30]
  IN  IF kept /\ n > 0
      THEN [base EXCEPT !.words = <<computeFallbackWordTimings(before)>>]
      ELSE base

\* the arguments of one call: a caption (starting at 0 or 20; zero-width,
\* shorter than 10 ms or longer) and a word index; two captions; a list of
\* drafts (in any order, an added caption being appended unsorted), an id
\* and a word index
CaptionInputs ==
  LET captions(id, widths, counts) ==
        {InputCaption(id, s, w, n, kept) :
           s \in {0, 20}, w \in widths, n \in counts, kept \in BOOLEAN}
      A == captions("c1", {0, 4, 30}, 0..MaxWords)
      B == captions("c2", {0, 4, 30}, 0..MaxWords)
      LA == captions("c1", {0, 30}, {2})
      LB == captions("c2", {0, 30}, {2})
      lists == {<<>>} \cup {<<a>> : a \in LA}
               \cup {<<a, b>> : a \in LA, b \in LB}
               \cup {<<b, a>> : a \in LA, b \in LB}
  IN  [kind : {"split"}, caption : A, wordIndex : -1..(MaxWords + 1)]
      \cup [kind : {"merge"}, a : A, b : B]
      \cup [kind : {"list"}, captions : lists,
            captionId : {"c1", "c2", "c9"}, wordIndex : -1..3]

CaptionInit ==
  /\ SystemInit
  /\ cin \in CaptionInputs
  /\ cout = NoCall

Returned(value) ==
  /\ cout' = value
  /\ UNCHANGED <<clientVars, workerVars, hookVars, pageVars, cin>>

CallSplitCaptionNewline ==
  /\ cin.kind = "split"
  /\ Returned([op |-> "splitCaptionNewline",
               result |-> splitCaptionNewline(cin.caption, cin.wordIndex)])

CallSplitCaptionNext(file) ==
  /\ cin.kind = "split"
  /\ Returned([op |-> "splitCaptionNext", file |-> file,
               result |-> splitCaptionNext(file, cin.caption, cin.wordIndex)])

\* mergeCaptions(...splitCaptionNext(c, i))
CallSplitThenMerge(file) ==
  /\ cin.kind = "split"
  /\ LET r == splitCaptionNext(file, cin.caption, cin.wordIndex)
     IN  Returned([op |-> "splitThenMerge", file |-> file,
                   result |-> IF r.isNull THEN Null
                              ELSE Some(mergeCaptions(r.value[1],
                                                      r.value[2]))])

\* mergeCaptions called with the two captions in either order
CallMergeCaptions ==
  /\ cin.kind = "merge"
  /\ Returned([op |-> "mergeCaptions",
               ab |-> mergeCaptions(cin.a, cin.b),
               ba |-> mergeCaptions(cin.b, cin.a)])

CallApplySplitCaption(mode) ==
  /\ cin.kind = "list"
  /\ LET r == applySplitCaption(cin.captions, cin.captionId, cin.wordIndex,
                                mode)
     IN  Returned([op |-> "applySplitCaption", mode |-> mode,
                   result |-> r.result, captions |-> r.captions])

CallApplyMergeCaption(direction) ==
  /\ cin.kind = "list"
  /\ LET r == applyMergeCaption(cin.captions, cin.captionId, direction)
     IN  Returned([op |-> "applyMergeCaption", direction |-> direction,
                   result |-> r.result, captions |-> r.captions])

CaptionNext ==
  \/ CallSplitCaptionNewline
  \/ \E file \in {"captionOps", "queries"} : CallSplitCaptionNext(file)
  \/ \E file \in {"captionOps", "queries"} : CallSplitThenMerge(file)
  \/ CallMergeCaptions
  \/ \E mode \in {"newline", "next"} : CallApplySplitCaption(mode)
  \/ \E direction \in {"up", "down"} : CallApplyMergeCaption(direction)

CaptionSpec == CaptionInit /\ [][CaptionNext]_vars

\* the words of the caption the split functions were called on
InputWords == computeFallbackWordTimings(cin.caption)

ValidSplit == cin.wordIndex > 0 /\ cin.wordIndex < Len(InputWords)

NonDegenerate(c) == c.endMs > c.startMs

\* C15: for every caption and every split index with
\* 0 < wordIndex < number of words, splitCaptionNext (of either file)
\* returns two captions and both have endMs > startMs, a zero-width source
\* caption and a split word starting at the caption's start included
C15_SplitNonDegenerate ==
  (cout.op = "splitCaptionNext" /\ ValidSplit)
    => /\ ~cout.result.isNull
       /\ NonDegenerate(cout.result.value[1])
       /\ NonDegenerate(cout.result.value[2])

\* the caption of the list call's id, and whether its split index is valid
KnownId == \E i \in 1..Len(cin.captions) : cin.captions[i].id = cin.captionId

TargetWords ==
  computeFallbackWordTimings(
    cin.captions[findIndex(cin.captions, cin.captionId)])

\* the caption of the id has a neighbour, in start-time order, on the side
\* the direction names
HasNeighbor(direction) ==
  LET at == findIndex(sortByStartMs(cin.captions), cin.captionId)
  IN  IF direction = "up" THEN at > 1 ELSE at < Len(cin.captions)

\* C16: splitCaptionNewline and splitCaptionNext return null exactly when
\* wordIndex <= 0 or wordIndex >= number of words; applySplitCaption
\* returns null when the id is unknown or the split fails;
\* applyMergeCaption returns null when the id is unknown or the caption has
\* no neighbour in the direction; a call that returns null leaves the
\* caption list it was given as it was
C16_NullOnBoundary ==
  /\ cout.op \in {"splitCaptionNewline", "splitCaptionNext"}
       => (cout.result.isNull <=> ~ValidSplit)
  /\ cout.op = "applySplitCaption"
       => /\ ~KnownId => cout.result.isNull
          /\ (KnownId /\ ~(cin.wordIndex > 0
                           /\ cin.wordIndex < Len(TargetWords)))
               => cout.result.isNull
          /\ cout.result.isNull => cout.captions = cin.captions
  /\ cout.op = "applyMergeCaption"
       => /\ ~KnownId => cout.result.isNull
          /\ (KnownId /\ ~HasNeighbor(cout.direction)) => cout.result.isNull
          /\ cout.result.isNull => cout.captions = cin.captions

\* a merge downwards asked for the later of two captions held out of order:
\* null is returned and the list is still out of order
C16_Witness ==
  /\ cout.op = "applyMergeCaption"
  /\ cout.direction = "down"
  /\ KnownId
  /\ Len(cin.captions) = 2
  /\ cin.captions # sortByStartMs(cin.captions)
  /\ cout.result.isNull
  /\ cout.captions = cin.captions

NonDecreasing(words) ==
  \A i \in 1..(Len(words) - 1) : words[i].startMs <= words[i + 1].startMs

\* s and t hold the same elements the same number of times
SameElements(s, t) ==
  /\ Len(s) = Len(t)
  /\ \A i \in 1..Len(s) :
       Cardinality({k \in 1..Len(s) : s[k] = s[i]})
         = Cardinality({k \in 1..Len(t) : t[k] = s[i]})

\* what mergeCaptions(a, b) has to return, whichever order it gives to
\* words that start together
MergedFrom(m, a, b) ==
  /\ m.startMs = Min(a.startMs, b.startMs)
  /\ m.endMs = Max(a.endMs, b.endMs)
  /\ m.words # <<>>
  /\ SameElements(m.words[1], computeFallbackWordTimings(a)
                                \o computeFallbackWordTimings(b))
  /\ NonDecreasing(m.words[1])
  /\ m.text = joinText(wordTexts(m.words[1]), <<" ">>)

\* C17: mergeCaptions(a, b) spans min(a.startMs, b.startMs) to
\* max(a.endMs, b.endMs), its words are the words of a and b ordered by
\* startMs and its text is those words joined in that order;
\* mergeCaptions(a, b) and mergeCaptions(b, a) have the same startMs, endMs,
\* word sequence and text
C17_MergeCommutative ==
  cout.op = "mergeCaptions"
    => /\ MergedFrom(cout.ab, cin.a, cin.b)
       /\ MergedFrom(cout.ba, cin.b, cin.a)
       /\ cout.ab.startMs = cout.ba.startMs
       /\ cout.ab.endMs = cout.ba.endMs
       /\ cout.ab.words = cout.ba.words
       /\ cout.ab.text = cout.ba.text

\* C18: for every caption c and valid split index i, mergeCaptions applied
\* to the two captions splitCaptionNext(c, i) returns gives a caption whose
\* span covers [c.startMs, c.endMs] and whose words, joined by single
\* spaces, are c's words in their original order
C18_SplitThenMerge ==
  (cout.op = "splitThenMerge" /\ ValidSplit)
    => /\ ~cout.result.isNull
       /\ cout.result.value.startMs <= cin.caption.startMs
       /\ cout.result.value.endMs >= cin.caption.endMs
       /\ wordTexts(cout.result.value.words[1]) = wordTexts(InputWords)
       /\ cout.result.value.text = joinText(wordTexts(InputWords), <<" ">>)

\* a zero-width caption of three words split by captionOps.ts after the
\* second word and merged again
C18_Witness ==
  /\ cout.op = "splitThenMerge"
  /\ cout.file = "captionOps"
  /\ cin.caption.endMs = cin.caption.startMs
  /\ Len(InputWords) = 3
  /\ cin.wordIndex = 2
  /\ ~cout.result.isNull
  /\ cout.result.value.text = cin.caption.text

\* ---------------------------------------------------------------------
\* Subtitle serialisation and trim adjustment (features/export srtUtils)
\* ---------------------------------------------------------------------

\* Number.prototype.toString of a non-negative integer, as digit symbols
RECURSIVE toString(_)
toString(n) ==
  LET digit == <<"0", "1", "2", "3", "4", "5", "6", "7", "8", "9">>
  IN  IF n < 10 THEN <<digit[n + 1]>>
      ELSE toString(n \div 10) \o <<digit[(n % 10) + 1]>>

\* String.prototype.padStart(width, '0')
padStart(text, width) ==
  [i \in 1..(width - Len(text)) |-> "0"] \o text

\* formatSrtTimecode with the minutes not reduced modulo the hour
formatSrtTimecode_TotalMinutes(ms) ==
  padStart(toString(ms \div 3600000), 2) \o <<":">>
  \o padStart(toString(ms \div 60000), 2) \o <<":">>
  \o padStart(toString((ms % 60000) \div 1000), 2) \o <<",">>
  \o padStart(toString(ms % 1000), 3)

formatSrtTimecode(ms) ==
  LET hours == ms \div 3600000
      minutes == (ms % 3600000) \div 60000
      seconds == (ms % 60000) \div 1000
      milliseconds == ms % 1000
  IN  padStart(toString(hours), 2) \o <<":">>
      \o padStart(toString(minutes), 2) \o <<":">>
      \o padStart(toString(seconds), 2) \o <<",">>
      \o padStart(toString(milliseconds), 3)

captionsToSrt(captions) ==
  LET sorted == sortByStartMs(captions)
      cue(index) ==
        toString(index) \o <<"\n">>
        \o formatSrtTimecode(sorted[index].startMs) \o <<" ", "-->", " ">>
        \o formatSrtTimecode(sorted[index].endMs) \o <<"\n">>
        \o trim(sorted[index].text)
  IN  IF Len(captions) = 0 THEN <<>>
      ELSE joinText([index \in 1..Len(sorted) |-> cue(index)],
                    <<"\n", "\n">>)

\* adjustSrtForTrim: the captions that overlap the window ...
filtered(captions, trimStartMs, trimEndMs) ==
  SelectSeq(captions,
            LAMBDA c : c.startMs < trimEndMs /\ c.endMs > trimStartMs)

adjusted_NoClamp(captions, trimStartMs, trimEndMs) ==
  LET f == filtered(captions, trimStartMs, trimEndMs)
  IN  [i \in 1..Len(f) |->
         [f[i] EXCEPT !.startMs = Max(0, f[i].startMs - trimStartMs),
                      !.endMs = f[i].endMs - trimStartMs]]

adjusted_ShiftByOne(captions, trimStartMs, trimEndMs) ==
  LET f == filtered(captions, trimStartMs, trimEndMs)
  IN  [i \in 1..Len(f) |->
         [f[i] EXCEPT !.startMs = Max(0, f[i].startMs - trimStartMs - 1),
                      !.endMs = Min(trimEndMs - trimStartMs,
                                    f[i].endMs - trimStartMs - 1)]]

\* ... moved to the window's time base and cut at its ends ...
adjusted(captions, trimStartMs, trimEndMs) ==
  LET f == filtered(captions, trimStartMs, trimEndMs)
  IN  [i \in 1..Len(f) |->
         [f[i] EXCEPT !.startMs = Max(0, f[i].startMs - trimStartMs),
                      !.endMs = Min(trimEndMs - trimStartMs,
                                    f[i].endMs - trimStartMs)]]

\* ... and serialised
adjustSrtForTrim(captions, trimStartMs, trimEndMs) ==
  captionsToSrt(adjusted(captions, trimStartMs, trimEndMs))

\* --- the caption lists and windows the adjustment is applied to ---

\* stored caption lists (startMs >= 0 and endMs > startMs, in any order;
\* the text of c1 has white space around it) and windows with
\* trimStartMs < trimEndMs
TrimInputs ==
  LET times == {0, 2000, 4000, 6000, 8000}
      stored(id) ==
        {[id |-> id, startMs |-> s, endMs |-> e,
          text |-> IF id = "c1" THEN <<" ", "a", " ", "b", "\n">>
                   ELSE <<"v">>,
          words |-> <<>>] : s \in times, e \in times}
      valid(id) == {c \in stored(id) : c.endMs > c.startMs}
  IN  {i \in [kind : {"trim"},
              captions : {<<>>} \cup {<<a>> : a \in valid("c1")}
                         \cup {<<a, b>> : a \in valid("c1"),
                                          b \in valid("c2")},
              trimStartMs : times, trimEndMs : times] :
         i.trimStartMs < i.trimEndMs}

TrimInit ==
  /\ SystemInit
  /\ cin \in TrimInputs
  /\ cout = NoCall

CallAdjustSrtForTrim ==
  /\ cin.kind = "trim"
  /\ Returned([op |-> "adjustSrtForTrim",
               adjusted |-> adjusted(cin.captions, cin.trimStartMs,
                                     cin.trimEndMs),
               result |-> adjustSrtForTrim(cin.captions, cin.trimStartMs,
                                           cin.trimEndMs)])

\* the adjustment applied to its own adjusted captions, same window
CallAdjustTwice ==
  /\ cin.kind = "trim"
  /\ LET once == adjusted(cin.captions, cin.trimStartMs, cin.trimEndMs)
         twice == adjusted(once, cin.trimStartMs, cin.trimEndMs)
     IN  Returned([op |-> "adjustTwice",
                   once |-> once, onceSrt |-> captionsToSrt(once),
                   twice |-> twice, twiceSrt |-> captionsToSrt(twice)])

TrimNext ==
  \/ CallAdjustSrtForTrim
  \/ CallAdjustTwice

TrimSpec == TrimInit /\ [][TrimNext]_vars

\* the captions of the call that overlap its window, in the list's order
Overlapping ==
  SelectSeq(cin.captions,
            LAMBDA c : /\ c.startMs < cin.trimEndMs
                       /\ c.endMs > cin.trimStartMs)

Spans(captions) ==
  [i \in 1..Len(captions) |-> <<captions[i].startMs, captions[i].endMs>>]

\* C19: the trim adjustment with window [trimStart, trimEnd),
\* trimStart < trimEnd, retains exactly the captions with
\* startMs < trimEnd and endMs > trimStart, shifts them by -trimStart,
\* clamps the start at 0 and the end at trimEnd - trimStart; every retained
\* caption satisfies 0 <= startMs < endMs <= trimEnd - trimStart; window
\* [2000,6000) over {0,4000} and {4000,8000} gives {0,2000} and {2000,4000}
C19_TrimAdjust ==
  cout.op = "adjustSrtForTrim"
    => LET len == cin.trimEndMs - cin.trimStartMs
       IN  /\ Len(cout.adjusted) = Len(Overlapping)
           /\ \A i \in 1..Len(Overlapping) :
                LET c == Overlapping[i]
                    r == cout.adjusted[i]
                IN  /\ r.id = c.id /\ r.text = c.text
                    /\ r.startMs = Max(0, c.startMs - cin.trimStartMs)
                    /\ r.endMs = Min(len, c.endMs - cin.trimStartMs)
                    /\ 0 <= r.startMs /\ r.startMs < r.endMs /\ r.endMs <= len
           /\ (/\ cin.trimStartMs = 2000 /\ cin.trimEndMs = 6000
               /\ Spans(cin.captions) = <<<<0, 4000>>, <<4000, 8000>>>>)
                => Spans(cout.adjusted) = <<<<0, 2000>>, <<2000, 4000>>>>

\* the claim's example: both captions are retained, one cut at the window's
\* start and the other at its end
C19_Witness ==
  /\ cout.op = "adjustSrtForTrim"
  /\ cin.trimStartMs = 2000 /\ cin.trimEndMs = 6000
  /\ Spans(cin.captions) = <<<<0, 4000>>, <<4000, 8000>>>>
  /\ Spans(cout.adjusted) = <<<<0, 2000>>, <<2000, 4000>>>>
  /\ cout.result # <<>>

\* the window [0, D) reaches the end of the last caption
NoOpWindow ==
  /\ cin.trimStartMs = 0
  /\ \A i \in 1..Len(cin.captions) : cin.captions[i].endMs <= cin.trimEndMs

\* C20: for any caption list and any D at least as large as the captions'
\* full span, the trim adjustment with window [0, D) applied twice gives
\* the same captions and the same subtitle text as applied once
C20_NoOpTrimIdempotent ==
  (cout.op = "adjustTwice" /\ NoOpWindow)
    => /\ cout.twice = cout.once
       /\ cout.twiceSrt = cout.onceSrt

\* two captions, the later one ending with the window
C20_Witness ==
  /\ cout.op = "adjustTwice"
  /\ NoOpWindow
  /\ Len(cin.captions) = 2
  /\ \E i \in 1..2 : cin.captions[i].endMs = cin.trimEndMs
  /\ Len(cout.once) = 2
  /\ cout.twice = cout.once
  /\ cout.twiceSrt = cout.onceSrt

\* ---------------------------------------------------------------------
\* Client bookkeeping (ffmpegClient)
\* ---------------------------------------------------------------------

\* the client holds something of job j: a callback record, an armed timer
\* or the current-job marker
Held(c, j) == j \in c.jobCallbacks \/ j \in c.timers \/ c.currentJobId = j

\* the client's message listener takes a terminal message of job j
TerminalMessage(j) ==
  /\ ClientRecv
  /\ initPromise.status # "pending"
  /\ Head(outbox).type \in TerminalTypes
  /\ Head(outbox).jobId = j

\* C21: immediately after the client processes a job's completed,
\* probe-completed, error or cancelled message, its timeout, a worker error
\* event or terminateFFmpegWorker, the job table has no entry for the job,
\* its timer is not armed and currentJobId is not the job; a job whose
\* promise is settled has none of the three.
C21_BookkeepingReleased ==
  [][\A j \in Jobs :
       /\ (TerminalMessage(j) \/ Timeout(j)) => ~Held(client', j)
       /\ ((WorkerErrorEvent \/ terminateFFmpegWorker) /\ Held(client, j))
            => ~Held(client', j)
       /\ (promise[j].outcome = "pending" /\ promise'[j].outcome # "pending")
            => ~Held(client', j)]_vars

\* one job ended by its terminal message and one by its timer, and the
\* client holds nothing of either
C21_Witness ==
  \E j, k \in Jobs :
    /\ promise[j].outcome = "resolved"
    /\ promise[k].outcome = "TIMEOUT"
    /\ ~Held(client, j)
    /\ ~Held(client, k)

\* the promise of job j was settled by a terminal message of the worker
MessageSettled(j) ==
  promise[j].outcome
    \notin {"none", "pending", "TIMEOUT", "WORKER_CRASHED", "TERMINATED"}

\* C22: when a terminal message of job J is processed before J's timer
\* expires, the timer is disarmed with it; from then on the timer callback
\* of J never runs, so it produces no TIMEOUT error and sends no cancel
\* message for J, and the promise of J keeps the outcome the message gave it.
C22_FirstSignalWins ==
  [][\A j \in Jobs :
       /\ (TerminalMessage(j) /\ j \in client.timers)
            => /\ j \notin client'.timers
               /\ promise'[j].outcome # "TIMEOUT"
       /\ MessageSettled(j)
            => /\ ~Timeout(j)
               /\ j \notin client'.timers
               /\ promise'[j] = promise[j]]_vars

\* a job was settled by its completed message while its timer was armed,
\* and a later job is in flight with its own timer
C22_Witness ==
  \E j, k \in Jobs :
    /\ promise[j] = [outcome |-> "resolved", calls |-> 1]
    /\ j \notin client.timers
    /\ k # j
    /\ client.currentJobId = k
    /\ k \in client.timers

\* the hook's trim exports with their timers, the progress messages
\* followed: a job that timed out goes on in the worker and its messages
\* reach the client after the client has dropped it
LateNext ==
  \/ \E o \in ExportOptions :
        hasTrim(o) /\ ~o.includeSubtitles /\ HookStartExport(o)
  \/ \E j \in Jobs : Timeout(j)
  \/ ClientRecv
  \/ WorkerBoot
  \/ WorkerRecvOn(TRUE)
  \/ \E ok \in BOOLEAN : WorkerInitLoadDone(ok)
  \/ \E j \in Jobs, ok \in BOOLEAN : JobLoadOn(j, ok, TRUE)
  \/ \E j \in Jobs, ok \in BOOLEAN : JobWriteOn(j, ok, TRUE)
  \/ \E j \in Jobs, res \in {"data", "throw"}, ev \in {<<>>, <<50>>} :
        JobExecOn(j, res, ev, FALSE, TRUE)
  \/ \E j \in Jobs : JobReadOn(j, TRUE)

LateSpec == Init /\ [][LateNext]_vars

\* the message the client's listener takes next is a job message whose job
\* id is not in the job table
UnknownJobMessage ==
  /\ outbox # <<>>
  /\ initPromise.status # "pending"
  /\ Head(outbox).type \in TerminalTypes \cup {"progress"}
  /\ Head(outbox).jobId \notin client.jobCallbacks

\* C23: a progress, completed, probe-completed, error or cancelled message
\* whose job id is not in the job table changes nothing when the client
\* processes it: no promise is settled and no resolving function called, the
\* hook's state (what onProgress would change) stays, and the job table,
\* currentJobId, the armed timers and readiness stay, also while another
\* job is in flight.
C23_UnknownJobIgnored ==
  [][(UnknownJobMessage /\ ClientRecv)
       => UNCHANGED <<client, promise, exportState, isReady, hlog,
                      initPromise>>]_vars

\* a late progress message of a job the client has dropped is next while a
\* later job is in flight
C23_Witness ==
  /\ UnknownJobMessage
  /\ Head(outbox).type = "progress"
  /\ client.currentJobId # NoJob
  /\ client.currentJobId \in client.jobCallbacks
  /\ exportState.status = "exporting"

\* the same with a late completed message
C23_WitnessTerminal ==
  /\ UnknownJobMessage
  /\ Head(outbox).type = "completed"
  /\ client.currentJobId # NoJob

\* C24: cancelCurrentJob posts one cancel message with the current job's id
\* and changes nothing else: currentJobId, the job's callback record and its
\* timer stay, so isJobRunning() stays true and a start request is not
\* accepted; currentJobId is released only by the job's terminal message,
\* its timeout, a worker error event or terminateFFmpegWorker; with no job
\* in flight cancelCurrentJob posts nothing.
C24_CancelOnlyForwards ==
  [][/\ EnvCancel
          => /\ UNCHANGED <<client, promise, nextJobId>>
             /\ inbox' = IF isJobRunning /\ client.worker
                         THEN Append(inbox, Msg("cancel", client.currentJobId))
                         ELSE inbox
             /\ isJobRunning => isJobRunning'
     /\ isJobRunning => startJobResult(client) # "accepted"
     /\ (isJobRunning /\ client'.currentJobId # client.currentJobId)
          => \/ TerminalMessage(client.currentJobId)
             \/ Timeout(client.currentJobId)
             \/ WorkerErrorEvent
             \/ terminateFFmpegWorker]_vars

\* the worker has taken the cancel of a job started through the client's
\* start functions, and the client still holds the job: record, timer and
\* current-job marker
C24_Witness ==
  \E j \in Jobs :
    /\ jobOwner[j] = "env"
    /\ worker.currentJobId = j
    /\ worker.cancelRequested
    /\ client.currentJobId = j
    /\ j \in client.jobCallbacks
    /\ j \in client.timers
    /\ promise[j].outcome = "pending"

\* C25: the worker never has two handlers in progress: no trim, burn-in or
\* probe handler is started while an earlier job's handler has not ended,
\* and the staged files belong to one job at a time, also after a client
\* timeout released the client's slot and a new job was started.
C25_OneJobAtATime ==
  /\ \A j, k \in Jobs : (wpc[j] \in ActivePc /\ wpc[k] \in ActivePc) => j = k
  /\ \A f, g \in DOMAIN fs :
       (fs[f].owner # NoJob /\ fs[g].owner # NoJob) => fs[f].owner = fs[g].owner

\* C26: a handler of the worker, once started, posts exactly one terminal
\* message for its job id: while it runs it has posted none, when it has
\* ended it has posted one and never a second, and the message is
\* probe-completed or error for a probe, completed, error or cancelled for
\* a trim or burn-in, whichever path it took (engine exception, missing
\* font, empty output, cancellation).
C26_ExactlyOneTerminal ==
  \A j \in Jobs :
    /\ Len(posted[j]) <= 1
    /\ wpc[j] = "done" <=> Len(posted[j]) = 1
    /\ \A i \in 1..Len(posted[j]) :
         posted[j][i] \in IF jobType[j] = "probe"
                          THEN {"probe-completed", "error"}
                          ELSE {"completed", "error", "cancelled"}

\* two handlers have ended, one in its catch block with error and one at a
\* checkpoint with cancelled
C26_Witness ==
  \E j, k \in Jobs :
    /\ posted[j] = <<"error">>
    /\ posted[k] = <<"cancelled">>
    /\ wpc[j] = "done"
    /\ wpc[k] = "done"

\* ---------------------------------------------------------------------
\* Initialization (initFFmpegWorker)
\* ---------------------------------------------------------------------

\* the init attempt is pending and the message its initHandler takes next
\* reports success (ready, or init-complete with success) or failure
InitReport(success) ==
  /\ outbox # <<>>
  /\ initPromise.status = "pending"
  /\ IF success
     THEN \/ Head(outbox).type = "ready"
          \/ Head(outbox) = InitComplete(TRUE)
     ELSE Head(outbox) = InitComplete(FALSE)

InitRejected == initPromise.status \in {"INIT_FAILED", "TIMEOUT"}

C28_ReadyOnlyAfterLoad ==
  /\ isFFmpegReady => worker.ffmpegLoaded
  /\ (\E i \in 1..Len(outbox) : outbox[i] = InitComplete(FALSE))
       => (initPromise.status # "resolved" /\ ~isFFmpegReady)

\* initFFmpegWorker called any number of times, with the events of the
\* Worker objects it creates
PoolNext ==
  \/ initFFmpegWorker
  \/ \E w \in WorkerIds : PoolBoot(w)
  \/ \E w \in WorkerIds, ok \in BOOLEAN : PoolLoadDone(w, ok)
  \/ \E w \in WorkerIds : PoolRecv(w)
  \/ \E w \in WorkerIds : PoolInitTimeout(w)
  \/ \E w \in WorkerIds : PoolErrorEvent(w)
  \/ PoolTerminate

InitSpec == Init /\ [][PoolNext]_vars

\* C29: at any time at most one Worker created by initFFmpegWorker is alive
\* (created and not terminated), also when initFFmpegWorker is called again
\* before an earlier call has settled or after a worker error event.
C29_OneWorkerAlive ==
  Cardinality({w \in WorkerIds : pool.workers[w].alive}) <= 1

\* ---------------------------------------------------------------------
\* Engine arguments of a window (ffmpeg.worker, buildTrimArgs)
\* ---------------------------------------------------------------------
\* An endMs argument is [type, finite, value]: undefined, null, or a number
\* that is finite with its value in ms or is Infinity.
Undefined == [type |-> "undefined", finite |-> FALSE, value |-> 0]

NullValue == [type |-> "null", finite |-> FALSE, value |-> 0]

Infinity == [type |-> "number", finite |-> FALSE, value |-> 0]

Number(n) == [type |-> "number", finite |-> TRUE, value |-> n]

\* msToFFmpegTime of a non-negative whole number of ms: hours and minutes
\* padded to 2, the seconds with toFixed(3) padded to 6
msToFFmpegTime(ms) ==
  LET hours == ms \div 3600000
      minutes == (ms % 3600000) \div 60000
      seconds == padStart(toString((ms % 60000) \div 1000) \o <<".">>
                          \o padStart(toString(ms % 1000), 3), 6)
  IN  padStart(toString(hours), 2) \o <<":">>
      \o padStart(toString(minutes), 2) \o <<":">> \o seconds

\* buildTrimArgs giving the window's end where the duration belongs
buildTrimArgs_EndForDuration(startMs, endMs) ==
  (IF startMs > 0 THEN <<<<"-ss">>, msToFFmpegTime(startMs)>> ELSE <<>>)
  \o (IF endMs.type = "number" /\ endMs.finite
      THEN <<<<"-t">>, msToFFmpegTime(endMs.value)>> ELSE <<>>)

\* buildTrimArgs: the arguments are texts
buildTrimArgs(startMs, endMs) ==
  LET seek == IF startMs > 0 THEN <<<<"-ss">>, msToFFmpegTime(startMs)>>
              ELSE <<>>
      durationMs == endMs.value - startMs
      duration == IF endMs.type = "number" /\ endMs.finite
                  THEN <<<<"-t">>, msToFFmpegTime(durationMs)>>
                  ELSE <<>>
  IN  seek \o duration

\* the windows buildTrimArgs is called with: startMs >= 0 and an endMs that
\* is a number not before startMs, Infinity, null or undefined (a job
\* started through the client), and the windows of the hook's payloads
ArgsInputs ==
  LET times == {0, 1, 999, 1000, 1500, 59999, 60000, 3600000, 3661001}
      payload(o) == exportPayload(o)
  IN  {i \in [kind : {"args"}, startMs : times,
              endMs : {Undefined, NullValue, Infinity}
                      \cup {Number(n) : n \in times}] :
         i.endMs.finite => i.endMs.value >= i.startMs}
      \cup {[kind |-> "args", startMs |-> payload(o).startMs,
             endMs |-> IF payload(o).endMs = <<>> THEN Undefined
                       ELSE Number(payload(o).endMs[1])] :
              o \in {x \in ExportOptions : exportKind(x) # "passthrough"
                                           /\ endMsOf(x) >= startMsOf(x)}}

ArgsInit ==
  /\ SystemInit
  /\ variant = "v5"
  /\ cin \in ArgsInputs
  /\ cout = NoCall

CallBuildTrimArgs ==
  /\ cin.kind = "args"
  /\ Returned([op |-> "buildTrimArgs",
               result |-> buildTrimArgs(cin.startMs, cin.endMs)])

ArgsNext == CallBuildTrimArgs

ArgsSpec == ArgsInit /\ [][ArgsNext]_vars

\* the number a text of digits stands for
RECURSIVE digitsValue(_)
digitsValue(text) ==
  LET digit == <<"0", "1", "2", "3", "4", "5", "6", "7", "8", "9">>
      last == CHOOSE d \in 0..9 : digit[d + 1] = text[Len(text)]
  IN  IF text = <<>> THEN 0
      ELSE 10 * digitsValue(SubSeq(text, 1, Len(text) - 1)) + last

\* the ms an engine time argument h:mm:ss.mmm stands for
timeValue(text) ==
  LET seps == {i \in 1..Len(text) : text[i] \in {":", "."}}
      c1 == CHOOSE i \in seps : \A k \in seps : i <= k
      c3 == CHOOSE i \in seps : \A k \in seps : i >= k
      c2 == CHOOSE i \in seps : i # c1 /\ i # c3
  IN  3600000 * digitsValue(SubSeq(text, 1, c1 - 1))
      + 60000 * digitsValue(SubSeq(text, c1 + 1, c2 - 1))
      + 1000 * digitsValue(SubSeq(text, c2 + 1, c3 - 1))
      + digitsValue(SubSeq(text, c3 + 1, Len(text)))

\* the positions of a flag in the arguments returned
FlagAt(flag) == {i \in 1..Len(cout.result) : cout.result[i] = <<flag>>}

FiniteEnd == cin.endMs.type = "number" /\ cin.endMs.finite

\* C30: buildTrimArgs emits -ss with the time of startMs exactly when
\* startMs > 0 and -t exactly when endMs is a finite number, the time after
\* -t being endMs - startMs; nothing else is emitted, so for startMs = 0
\* and an endMs that is undefined, null or Infinity the result is empty.
C30_TrimArgs ==
  cout.op = "buildTrimArgs"
    => /\ FlagAt("-ss") # {} <=> cin.startMs > 0
       /\ FlagAt("-t") # {} <=> FiniteEnd
       /\ \A i \in FlagAt("-ss") : timeValue(cout.result[i + 1]) = cin.startMs
       /\ \A i \in FlagAt("-t") :
            timeValue(cout.result[i + 1]) = cin.endMs.value - cin.startMs
       /\ Len(cout.result) = 2 * Cardinality(FlagAt("-ss") \cup FlagAt("-t"))
       /\ (cin.startMs = 0 /\ ~FiniteEnd) => cout.result = <<>>

\* a window that starts after 0 and ends: both arguments, with the duration
\* and not the end after -t
C30_Witness ==
  /\ cout.op = "buildTrimArgs"
  /\ cin.startMs = 1500
  /\ cin.endMs = Number(3661001)
  /\ cout.result = << <<"-ss">>,
                      <<"0", "0", ":", "0", "0", ":", "0", "1", ".", "5", "0", "0">>,
                      <<"-t">>,
                      <<"0", "1", ":", "0", "0", ":", "5", "9", ".", "5", "0", "1">> >>

\* ---------------------------------------------------------------------
\* Controller state (useVideoExport)
\* ---------------------------------------------------------------------
\* the hook's startExport (burn-in, trim or pass-through), cancel and reset
\* in any order, over the client and the worker, the progress messages
\* followed
ControlNext ==
  \/ \E o \in ExportOptions :
        /\ o.captions = 1
        /\ o.trimRange \in {<<>>, <<[startMs |-> 1, endMs |-> 3]>>}
        /\ HookStartExport(o)
  \/ HookCancel
  \/ HookReset
  \/ ClientRecv
  \/ WorkerBoot
  \/ WorkerRecvOn(TRUE)
  \/ \E ok \in BOOLEAN : WorkerInitLoadDone(ok)
  \/ \E j \in Jobs, ok \in BOOLEAN : JobLoadOn(j, ok, TRUE)
  \/ \E j \in Jobs, ok \in BOOLEAN : JobWriteOn(j, ok, TRUE)
  \/ \E j \in Jobs, res \in {"data", "throw"}, ev \in {<<>>, <<50>>} :
        JobExecOn(j, res, ev, FALSE, TRUE)
  \/ \E j \in Jobs : JobReadOn(j, TRUE)

ControlSpec == Init /\ [][ControlNext]_vars

\* C31: in every reachable controller state an output blob is held only
\* while state.status is 'completed', so downloadResult returns at once in
\* the idle, initializing, exporting and error states.
C31_DownloadGated ==
  /\ exportState.outputBlob # "none" => exportState.status = "completed"
  /\ exportState.status # "completed"
       => downloadResult(exportState) = "nothing"

\* a completed export whose state a later progress callback has touched:
\* the blob is still held and downloadResult downloads it
C31_Witness ==
  /\ exportState.status = "completed"
  /\ exportState.stage # "none"
  /\ exportState.outputBlob # "none"
  /\ downloadResult(exportState) = "download"


\* the start time of the word a valid split is made at
SplitWordStart == InputWords[cin.wordIndex + 1].startMs

\* C32: for a valid split index splitCaptionNext (of either file) returns
\* a first caption with the original id and startMs that ends at the split
\* word's start time, and a second caption with a fresh id that starts at
\* that boundary or 1 ms after it and ends at
\* max(its startMs + 10, original endMs); first.endMs <= second.startMs.
C32_SplitShape ==
  (cout.op = "splitCaptionNext" /\ ValidSplit)
    => /\ ~cout.result.isNull
       /\ LET first == cout.result.value[1]
              second == cout.result.value[2]
          IN  /\ first.id = cin.caption.id
              /\ first.startMs = cin.caption.startMs
              /\ first.endMs = SplitWordStart
              /\ second.id # cin.caption.id
              /\ second.startMs \in {SplitWordStart, SplitWordStart + 1}
              /\ second.endMs = Max(second.startMs + 10, cin.caption.endMs)
              /\ first.endMs <= second.startMs


\* ---------------------------------------------------------------------
\* applyMergeCaption on lists of up to three captions
\* ---------------------------------------------------------------------
\* the draft lists: up to three captions with distinct ids, in any order,
\* starting at 0, 20 or 40 (so some share a start time), zero-width or
\* 30 ms long (so some overlap)
MergeLists ==
  LET cap(id) == {InputCaption(id, s, w, 2, FALSE) :
                    s \in {0, 20, 40}, w \in {0, 30}}
      ids == {"c1", "c2", "c3"}
  IN  {<<>>}
      \cup UNION {{<<a>> : a \in cap(i)} : i \in ids}
      \cup UNION {{<<a, b>> : a \in cap(ij[1]), b \in cap(ij[2])} :
                    ij \in {p \in [1..2 -> ids] : p[1] # p[2]}}
      \cup UNION {{<<a, b, c>> : a \in cap(ijk[1]), b \in cap(ijk[2]),
                                 c \in cap(ijk[3])} :
                    ijk \in {p \in [1..3 -> ids] :
                               Cardinality({p[1], p[2], p[3]}) = 3}}

MergeInit ==
  /\ SystemInit
  /\ cin \in [kind : {"list"}, captions : MergeLists,
              captionId : {"c1", "c2", "c3", "c9"}, wordIndex : {0}]
  /\ cout = NoCall

MergeNext == \E direction \in {"up", "down"} : CallApplyMergeCaption(direction)

MergeSpec == MergeInit /\ [][MergeNext]_vars

\* whether the caption at position q is an immediate neighbour of the one
\* at position p in startMs order, on the side the direction names: no
\* other caption starts strictly between the two
NeighbourOf(list, p, q, direction) ==
  LET lo == IF direction = "up" THEN list[q] ELSE list[p]
      hi == IF direction = "up" THEN list[p] ELSE list[q]
  IN  /\ p # q
      /\ lo.startMs <= hi.startMs
      /\ \A k \in 1..Len(list) \ {p, q} :
           list[k].startMs <= lo.startMs \/ list[k].startMs >= hi.startMs

\* C33: a successful applyMergeCaption merges the target with an immediate
\* neighbour in startMs order (up: the previous caption, down: the next);
\* the result has one caption fewer than the input, contains every other
\* caption unchanged, is sorted by startMs, and the merged caption has the
\* id of the earlier caption of the pair and spans both.
C33_MergeNeighbour ==
  (cout.op = "applyMergeCaption" /\ ~cout.result.isNull)
    => LET list == cin.captions
           out == cout.result.value
       IN  /\ Len(out) = Len(list) - 1
           /\ \A i \in 1..Len(out), j \in 1..Len(out) :
                i < j => out[i].startMs <= out[j].startMs
           /\ \E p \in 1..Len(list), q \in 1..Len(list) :
                /\ list[p].id = cin.captionId
                /\ NeighbourOf(list, p, q, cout.direction)
                /\ \A k \in 1..Len(list) \ {p, q} :
                     \E i \in 1..Len(out) : out[i] = list[k]
                /\ \E i \in 1..Len(out) :
                     /\ out[i].id = (IF cout.direction = "up"
                                     THEN list[q].id ELSE list[p].id)
                     /\ out[i].startMs = Min(list[p].startMs, list[q].startMs)
                     /\ out[i].endMs = Max(list[p].endMs, list[q].endMs)

\* a merge upwards in a list of three captions that is not in startMs order
C33_Witness ==
  /\ cout.op = "applyMergeCaption"
  /\ cout.direction = "up"
  /\ ~cout.result.isNull
  /\ Len(cin.captions) = 3
  /\ cin.captions[1].startMs > cin.captions[2].startMs
  /\ Len(cout.result.value) = 2


\* ---------------------------------------------------------------------
\* Saving and exporting the drafts (CaptionsPanel)
\* ---------------------------------------------------------------------
\* sortCaptions (./format): the captions in startMs order
sortCaptions(captions) == sortByStartMs(captions)

\* sanitizeCaptions: drop the captions without text, clamp the start to 0
\* and the end to start + minDurationMs, sort, then end every caption that
\* reaches the next one 1 ms before the next one's start (the loop writes
\* sorted[i].endMs and reads sorted[i + 1].startMs only, so each index is
\* decided by the sorted values)
sanitizeCaptions(captions, minDurationMs) ==
  LET kept == SelectSeq(captions, LAMBDA c : Len(trim(c.text)) > 0)
      mapped == [i \in 1..Len(kept) |->
                   LET start == Max(0, kept[i].startMs)
                   IN  [kept[i] EXCEPT
                          !.startMs = start,
                          !.endMs = Max(start + minDurationMs, kept[i].endMs)]]
      sorted == sortCaptions(mapped)
  IN  [i \in 1..Len(sorted) |->
         IF i < Len(sorted) /\ sorted[i].endMs >= sorted[i + 1].startMs
         THEN [sorted[i] EXCEPT !.endMs = sorted[i + 1].startMs - 1]
         ELSE sorted[i]]

\* the drafts of the panel: up to three captions with distinct ids in any
\* order, a start before 0, at 0, at 1 or at 50, an end at the start or
\* 200 ms later, a text or only a blank
DraftLists ==
  LET cap(id) == {[id |-> id, startMs |-> s, endMs |-> s + w, text |-> t,
                   words |-> <<>>] :
                    s \in {-5, 0, 1, 50}, w \in {0, 200},
                    t \in {<<" ">>, <<"a">>}}
      ids == {"c1", "c2", "c3"}
  IN  {<<>>}
      \cup UNION {{<<a>> : a \in cap(i)} : i \in ids}
      \cup UNION {{<<a, b>> : a \in cap(ij[1]), b \in cap(ij[2])} :
                    ij \in {p \in [1..2 -> ids] : p[1] # p[2]}}
      \cup {<<a, b, c>> : a \in cap("c1"), b \in cap("c2"), c \in cap("c3")}

SaveInit ==
  /\ SystemInit
  /\ cin \in [kind : {"drafts"}, drafts : DraftLists,
              defaultDurationMs : {100}]
  /\ cout = NoCall

\* handleSave: the sanitized drafts, and whether they pass the overlap
\* check and are handed to the save mutation
handleSave ==
  LET prepared == sanitizeCaptions(cin.drafts, cin.defaultDurationMs)
      ordered == sortCaptions(prepared)
      overlap == \E i \in 2..Len(ordered) :
                   ordered[i].startMs < ordered[i - 1].endMs
  IN  Returned([op |-> "handleSave", captions |-> prepared,
                saved |-> ~overlap])

\* handleExport of CaptionsPanel: the sanitized drafts, serialized unless
\* there are none
handleExportSrt ==
  LET safe == sanitizeCaptions(cin.drafts, cin.defaultDurationMs)
  IN  Returned([op |-> "handleExportSrt", captions |-> safe,
                saved |-> Len(safe) > 0])

SaveNext == handleSave \/ handleExportSrt

SaveSpec == SaveInit /\ [][SaveNext]_vars

\* C34: the captions that sanitizing yields at save or export time are
\* ordered by startMs, do not overlap one another, and each has
\* startMs >= 0 and endMs > startMs, whatever the drafts were.
C34_SanitizedValid ==
  cout.op \in {"handleSave", "handleExportSrt"}
    => LET out == cout.captions
       IN  /\ \A i \in 1..Len(out), j \in 1..Len(out) :
                i < j => /\ out[i].startMs <= out[j].startMs
                         /\ out[i].endMs <= out[j].startMs
           /\ \A i \in 1..Len(out) :
                out[i].startMs >= 0 /\ out[i].endMs > out[i].startMs


\* ---------------------------------------------------------------------
\* Timecodes of a cue (captionsToSrt)
\* ---------------------------------------------------------------------
\* the times formatted: hours, minutes, seconds and milliseconds at the
\* ends of their ranges and in between, below 100 hours
TimecodeInputs ==
  {h * 3600000 + m * 60000 + s * 1000 + x :
     h \in {0, 1, 10, 99}, m \in {0, 9, 59}, s \in {0, 59}, x \in {0, 7, 99, 999}}

TimecodeInit ==
  /\ SystemInit
  /\ cin \in [kind : {"cue"}, startMs : TimecodeInputs, endMs : TimecodeInputs]
  /\ cout = NoCall

\* the startTime and endTime of one cue, as captionsToSrt formats them
CallFormatSrtTimecode ==
  Returned([op |-> "formatSrtTimecode",
            startTime |-> formatSrtTimecode(cin.startMs),
            endTime |-> formatSrtTimecode(cin.endMs)])

\* captionsToSrt of the one caption with these times
CallCaptionsToSrt ==
  Returned([op |-> "captionsToSrt",
            srt |-> captionsToSrt(<<[id |-> "c1", startMs |-> cin.startMs,
                                     endMs |-> cin.endMs, text |-> <<"a">>,
                                     words |-> <<>>]>>)])

TimecodeNext == CallFormatSrtTimecode \/ CallCaptionsToSrt

TimecodeSpec == TimecodeInit /\ [][TimecodeNext]_vars

Digits == {"0", "1", "2", "3", "4", "5", "6", "7", "8", "9"}

\* whether the text is HH:MM:SS,mmm (zero-padded digits, MM and SS below
\* 60) and its fields read back as ms
ReadsBack(text, ms) ==
  /\ Len(text) = 12
  /\ text[3] = ":" /\ text[6] = ":" /\ text[9] = ","
  /\ \A i \in {1, 2, 4, 5, 7, 8, 10, 11, 12} : text[i] \in Digits
  /\ LET HH == digitsValue(SubSeq(text, 1, 2))
         MM == digitsValue(SubSeq(text, 4, 5))
         SS == digitsValue(SubSeq(text, 7, 8))
         mmm == digitsValue(SubSeq(text, 10, 12))
     IN  /\ MM < 60 /\ SS < 60 /\ mmm < 1000
         /\ HH * 3600000 + MM * 60000 + SS * 1000 + mmm = ms

\* C35: for every integer ms >= 0 below 100 hours formatSrtTimecode(ms) is
\* HH:MM:SS,mmm with zero-padded fields, MM < 60, SS < 60, mmm < 1000 and
\* HH*3600000 + MM*60000 + SS*1000 + mmm = ms; distinct times give
\* distinct timecodes, and the cue line of captionsToSrt carries the two
\* timecodes.
C35_TimecodeRoundTrip ==
  /\ cout.op = "formatSrtTimecode"
       => /\ ReadsBack(cout.startTime, cin.startMs)
          /\ ReadsBack(cout.endTime, cin.endMs)
          /\ cin.startMs # cin.endMs => cout.startTime # cout.endTime
  /\ cout.op = "captionsToSrt"
       => /\ Len(cout.srt) = 31
          /\ ReadsBack(SubSeq(cout.srt, 3, 14), cin.startMs)
          /\ ReadsBack(SubSeq(cout.srt, 18, 29), cin.endMs)

\* the last millisecond below 100 hours, formatted as 99:59:59,999
C35_Witness ==
  /\ cout.op = "formatSrtTimecode"
  /\ cin.startMs = 359999999
  /\ cin.endMs = 7
  /\ cout.startTime = <<"9", "9", ":", "5", "9", ":", "5", "9", ",",
                        "9", "9", "9">>
  /\ cout.endTime = <<"0", "0", ":", "0", "0", ":", "0", "0", ",",
                      "0", "0", "7">>


\* C36: in every reachable client state the job table holds at most one
\* entry, and it holds an entry for id J exactly when currentJobId = J;
\* currentJobId is null exactly when the table is empty.
C36_TableMatchesMarker ==
  /\ Cardinality(client.jobCallbacks) <= 1
  /\ \A j \in Jobs : j \in client.jobCallbacks <=> client.currentJobId = j
  /\ client.currentJobId = NoJob <=> client.jobCallbacks = {}

\* the second job registered after the first one's entry was released by
\* its timeout: the table holds the second job only
C36_Witness ==
  /\ client.currentJobId = 2
  /\ client.jobCallbacks = {2}
  /\ promise[1].outcome = "TIMEOUT"


\* the step ends job j's handler with the message cancelled
EndsCancelled(j) ==
  /\ Len(posted'[j]) > Len(posted[j])
  /\ posted'[j][Len(posted'[j])] = "cancelled"

\* the cancel flag is raised only by a cancel message that names the
\* worker's current job
FlagRaisedByOwnCancel ==
  (~worker.cancelRequested /\ worker'.cancelRequested)
    => /\ inbox # <<>>
       /\ Head(inbox).type = "cancel"
       /\ Head(inbox).jobId = worker.currentJobId

\* a handler that starts clears the cancel flag
FlagClearedAtStart ==
  \A j \in Jobs :
    (wpc[j] = "none" /\ wpc'[j] # "none") => ~worker'.cancelRequested

\* C37: a cancel message naming job A never cancels a different job B: the
\* flag is raised only by a cancel naming the worker's current job, a job
\* that starts clears it, and a handler ends with cancelled only while its
\* own job is the worker's current job or, an overlapping handler having
\* ended, none is (the flag it read was then raised by a cancel naming it,
\* not by one naming another job).
C37_CancelNamesItsJob ==
  [][/\ FlagRaisedByOwnCancel
     /\ FlagClearedAtStart
     /\ \A j \in Jobs :
          EndsCancelled(j) => worker.currentJobId \in {j, NoJob}]_vars


\* the client takes a message of job j, a hook job that cancel() gave up
LateOutcome(j) ==
  /\ j \in hlog
  /\ initPromise.status # "pending"
  /\ outbox # <<>>
  /\ Head(outbox).jobId = j
  /\ Head(outbox).type \in TerminalTypes \cup {"progress"}
  /\ ClientRecv

\* C38: once cancel() has given up an export, a late progress, completed,
\* error or cancelled message of that job changes neither the status nor
\* the progress nor the output of the controller state, whether reset() or
\* a later startExport has acted in between or not (reset() leaves the
\* state cancel() left).
C38_LateOutcomeIgnored ==
  [][\A j \in Jobs :
       LateOutcome(j)
         => /\ exportState'.status = exportState.status
            /\ exportState'.progress = exportState.progress
            /\ exportState'.outputBlob = exportState.outputBlob]_vars


\* C39: in every reachable controller state, status 'completed' implies
\* progress = 1 (100 percent) and an output blob, and status 'idle' implies
\* progress = 0 and no stage label, after any sequence of startExport,
\* progress callbacks, cancel and reset.
C39_StateConsistent ==
  /\ exportState.status = "completed"
       => exportState.progress = 100 /\ exportState.outputBlob # "none"
  /\ exportState.status = "idle"
       => exportState.progress = 0 /\ exportState.stage = "none"

====
